---------------------------- MODULE Spec2Model ----------------------------
(***************************************************************************)
(* A model of @vandrite/nspell: the word graph (src/src/util/dawg.ts), the *)
(* spell checker built on it (src/src/index.ts, lines 1-491), the form     *)
(* finder (src/src/util/form.ts), the suggestion engine                    *)
(* (src/src/util/suggest.ts), the affix parser and expander                *)
(* (src/src/util/affix.ts, apply.ts), the LRU cache                        *)
(* (src/src/util/lru-cache.ts) and loadAsync (src/unnamed/part_002).       *)
(*                                                                         *)
(* A JavaScript string is a sequence of one-character strings.  The words  *)
(* of the model are written over the letters a, s, A, S (a and s are       *)
(* neighbours on the QWERTY layout and both occur in the built-in          *)
(* alphabet), the tables of the program that list letters are cut down to  *)
(* these letters, keeping the source's order.                              *)
(***************************************************************************)
EXTENDS Naturals, Integers, Sequences, FiniteSets, TLC

VARIABLES
    dawg,                   \* DAWG: [nodes, isEnd, flags, size]
    affixData,              \* AffixData, fixed by parseAffix at construction
    compoundRuleCodes,      \* affixData.compoundRuleCodes: flag -> list of roots
    compiledCompoundRules,  \* NSpell.compiledCompoundRules
    lastOp,                 \* the call that led to this state
    removed,                \* words removed and not inserted since (history)
    nOps,                   \* number of calls so far
    suggested,              \* what the last suggest call returned
    run,                    \* the suggest or apply call in progress: its locals
    cache                   \* an LRUCache: its Map, its maxSize, the calls made (history)

vars == <<dawg, affixData, compoundRuleCodes, compiledCompoundRules, lastOp, removed, nOps,
          suggested, run, cache>>

-----------------------------------------------------------------------------
(* Bounds *)

MaxOps == 3

\* calls explored on a checker loaded with one root
MaxLoadOps == 2

\* the depth of the call stack at which a further call of apply throws
\* RangeError (maximum call stack size exceeded)
MaxStack == 6

\* the number of get and set calls on an LRUCache
MaxCacheOps == 4

-----------------------------------------------------------------------------
(* Text utilities: String.prototype and src/src/util/affix.ts 299-487 *)

Range(s) == { s[i] : i \in 1..Len(s) }

Min(a, b) == IF a < b THEN a ELSE b

Max(a, b) == IF a < b THEN b ELSE a

toLowerChar(c) == CASE c = "A" -> "a" [] c = "S" -> "s" [] OTHER -> c

toUpperChar(c) == CASE c = "a" -> "A" [] c = "s" -> "S" [] OTHER -> c

toLowerCase(s) == [i \in 1..Len(s) |-> toLowerChar(s[i])]

toUpperCase(s) == [i \in 1..Len(s) |-> toUpperChar(s[i])]

\* s.slice(from) and s.slice(from, to) with 0-based, in-range indices
sliceFrom(s, from) == IF from >= Len(s) THEN <<>> ELSE SubSeq(s, from + 1, Len(s))

slice(s, from, to) == IF from >= Min(to, Len(s)) THEN <<>> ELSE SubSeq(s, from + 1, Min(to, Len(s)))

\* s.charAt(i): the empty string when i is out of range
charAt(s, i) == IF i >= 0 /\ i < Len(s) THEN <<s[i + 1]>> ELSE <<>>

endsWith(value, x) == Len(x) <= Len(value) /\ SubSeq(value, Len(value) - Len(x) + 1, Len(value)) = x

startsWith(value, x) == Len(x) <= Len(value) /\ SubSeq(value, 1, Len(x)) = x

isSpace(c) == c \in {" ", "\t", "\n", "\r"}

RECURSIVE trimStart(_)
trimStart(s) == IF s # <<>> /\ isSpace(Head(s)) THEN trimStart(Tail(s)) ELSE s

RECURSIVE trimEnd(_)
trimEnd(s) == IF s # <<>> /\ isSpace(s[Len(s)]) THEN trimEnd(SubSeq(s, 1, Len(s) - 1)) ELSE s

trim(s) == trimEnd(trimStart(s))

\* concatenation of a sequence of sequences, by halves
RECURSIVE Flatten(_)
Flatten(ss) ==
    IF Len(ss) = 0 THEN <<>>
    ELSE IF Len(ss) = 1 THEN ss[1]
    ELSE LET m == Len(ss) \div 2
         IN  Flatten(SubSeq(ss, 1, m)) \o Flatten(SubSeq(ss, m + 1, Len(ss)))

\* the first occurrences of the elements of s, in order, by halves
RECURSIVE DedupSeq(_)
DedupSeq(s) ==
    IF Len(s) <= 1 THEN s
    ELSE LET m == Len(s) \div 2
             l == DedupSeq(SubSeq(s, 1, m))
             r == DedupSeq(SubSeq(s, m + 1, Len(s)))
             inL == Range(l)
             fresh(x) == x \notin inL
         IN  l \o SelectSeq(r, fresh)

\* flags.includes(flag) guarded as hasFlag does: an unset flag is ""
hasFlag(flags, flag) == flag # "" /\ flag \in Range(flags)

\* String.prototype.replace(/c/g, to) for a one-character pattern
replaceAll(s, from, to) == Flatten([i \in 1..Len(s) |-> IF s[i] = from THEN to ELSE <<s[i]>>])

RECURSIVE normalize(_, _)
normalize(word, conversions) ==
    IF conversions = <<>> THEN word
    ELSE normalize(replaceAll(word, Head(conversions)[1], Head(conversions)[2]), Tail(conversions))

denormalize(word, conversions) == normalize(word, conversions)

detectCasing(word) ==
    IF word = <<>> THEN "null"
    ELSE IF word = toLowerCase(word) THEN "lower"
    ELSE IF word = toUpperCase(word) THEN "upper"
    ELSE IF word[1] = toUpperChar(word[1]) /\ sliceFrom(word, 1) = sliceFrom(toLowerCase(word), 1)
         THEN "capitalized"
    ELSE "mixed"

-----------------------------------------------------------------------------
(* The word graph: src/src/util/dawg.ts *)

\* a node is named by the path that leads to it; the root is <<>>.
\* flags[w] is node.flags where it is set; an unset node.flags is <<>>.
EmptyDawg == [nodes |-> {<<>>}, isEnd |-> {}, flags |-> << >>, size |-> 0]

Prefixes(word) == { SubSeq(word, 1, n) : n \in 0..Len(word) }

findNode(d, word) == IF word \in d.nodes THEN word ELSE <<"null">>

nodeFlags(d, node) == IF node \in DOMAIN d.flags THEN d.flags[node] ELSE <<>>

setFlags(f, node, fl) == [n \in (DOMAIN f) \cup {node} |-> IF n = node THEN fl ELSE f[n]]

clearFlags(f, node) == [n \in (DOMAIN f) \ {node} |-> f[n]]

DawgAddNoCount(d, word, flags) ==
    IF word = <<>> THEN d
    ELSE [nodes |-> d.nodes \cup Prefixes(word),
          isEnd |-> d.isEnd \cup {word},
          flags |-> IF flags # <<>> THEN setFlags(d.flags, word, flags) ELSE d.flags,
          size  |-> d.size + 1]

\* a variant of add that assigns the flags argument even when it is absent
DawgAddOverwrite(d, word, flags) ==
    IF word = <<>> THEN d
    ELSE [nodes |-> d.nodes \cup Prefixes(word),
          isEnd |-> d.isEnd \cup {word},
          flags |-> IF flags # <<>> THEN setFlags(d.flags, word, flags)
                                    ELSE clearFlags(d.flags, word),
          size  |-> IF word \in d.isEnd THEN d.size ELSE d.size + 1]

DawgAdd(d, word, flags) ==
    IF word = <<>> THEN d
    ELSE [nodes |-> d.nodes \cup Prefixes(word),
          isEnd |-> d.isEnd \cup {word},
          flags |-> IF flags # <<>> THEN setFlags(d.flags, word, flags) ELSE d.flags,
          size  |-> IF word \in d.isEnd THEN d.size ELSE d.size + 1]

has(d, word) == findNode(d, word) # <<"null">> /\ word \in d.isEnd

getFlags(d, word) == IF has(d, word) THEN nodeFlags(d, word) ELSE <<>>

\* a variant of remove that clears the flags and the count and leaves the
\* terminal mark
DawgRemoveKeepEnd(d, word) ==
    IF word \in d.nodes /\ word \in d.isEnd
    THEN [d EXCEPT !.flags = clearFlags(@, word), !.size = @ - 1]
    ELSE d

\* a variant of remove that cuts the subtree below the word off
DawgRemovePrune(d, word) ==
    IF word \in d.nodes /\ word \in d.isEnd
    THEN [d EXCEPT !.isEnd = {u \in @ : ~startsWith(u, word)},
                   !.nodes = {u \in @ : u = word \/ ~startsWith(u, word)},
                   !.flags = clearFlags(@, word), !.size = @ - 1]
    ELSE d

DawgRemove(d, word) ==
    IF word \in d.nodes /\ word \in d.isEnd
    THEN [d EXCEPT !.isEnd = @ \ {word}, !.flags = clearFlags(@, word), !.size = @ - 1]
    ELSE d

hasPrefix(d, prefix) == findNode(d, prefix) # <<"null">>

getStats(d) == [words |-> d.size, nodes |-> Cardinality(d.nodes)]

\* Object.keys(node.children): the characters that lead to a child of node
childKeys(d, node) == {n[Len(n)] : n \in {m \in d.nodes : Len(m) = Len(node) + 1
                                                       /\ SubSeq(m, 1, Len(node)) = node}}

\* a variant of serializeNode that writes no f field
RECURSIVE serializeNodeNoFlags(_, _)
serializeNodeNoFlags(d, node) ==
    [c |-> [ch \in childKeys(d, node) |-> serializeNodeNoFlags(d, node \o <<ch>>)],
     e |-> IF node \in d.isEnd THEN 1 ELSE 0,
     f |-> <<>>]

\* a SerializedDAWGNode; a field the code leaves out is c = << >>, e = 0, f = <<>>
RECURSIVE serializeNode(_, _)
serializeNode(d, node) ==
    [c |-> [ch \in childKeys(d, node) |-> serializeNode(d, node \o <<ch>>)],
     e |-> IF node \in d.isEnd THEN 1 ELSE 0,
     f |-> IF Len(nodeFlags(d, node)) > 0 THEN nodeFlags(d, node) ELSE <<>>]

serialize(d) == serializeNode(d, <<>>)

\* the nodes built from data, as records [node, isEnd, flags]; path is the
\* place of the node below the root
RECURSIVE deserializeNode(_, _)
deserializeNode(data, path) ==
    {[node |-> path, isEnd |-> data.e # 0, flags |-> data.f]}
        \cup UNION {deserializeNode(data.c[ch], path \o <<ch>>) : ch \in DOMAIN data.c}

\* countWords on the rebuilt nodes below and including node
RECURSIVE countWords(_, _)
countWords(built, node) ==
    LET here == CHOOSE b \in built : b.node = node
        kids == {b.node : b \in {x \in built : Len(x.node) = Len(node) + 1
                                                /\ SubSeq(x.node, 1, Len(node)) = node}}
        sumOver[todo \in SUBSET kids] ==
            IF todo = {} THEN 0
            ELSE LET k == CHOOSE x \in todo : TRUE
                 IN  countWords(built, k) + sumOver[todo \ {k}]
    IN  (IF here.isEnd THEN 1 ELSE 0) + sumOver[kids]

deserialize(data) ==
    LET built == deserializeNode(data, <<>>)
        flagged == {b \in built : b.flags # <<>>}
    IN  [nodes |-> {b.node : b \in built},
         isEnd |-> {b.node : b \in {x \in built : x.isEnd}},
         flags |-> [n \in {b.node : b \in flagged} |->
                      (CHOOSE b \in flagged : b.node = n).flags],
         size  |-> countWords(built, <<>>)]

-----------------------------------------------------------------------------
(* Affix data: the result of parseAffix (src/src/util/affix.ts 47-297) *)

\* "etaoinshrdlcumwfgypbvkjxqz", cut down to the letters of the model
ALPHABET == <<"a", "s">>

\* the groups of DEFAULT_KEYBOARD that hold two letters of the model: "say"
DEFAULT_KEYBOARD == << <<"s", "a">> >>

\* const flags = {KEY: [], TRY: [], COMPOUNDMIN: 3} and the defaults applied
\* at the end of parseAffix; an unset string flag is "".
DefaultFlags ==
    [FORBIDDENWORD |-> "", KEEPCASE |-> "", ONLYINCOMPOUND |-> "", NEEDAFFIX |-> "",
     NOSUGGEST |-> "", WARN |-> "", FORBIDWARN |-> FALSE, COMPOUNDMIN |-> 3,
     KEY |-> DEFAULT_KEYBOARD, TRY |-> ALPHABET, MAP |-> <<>>]

NoMatch == [neg |-> FALSE, chars |-> {}]

\* SFX B Y 1 / SFX B 0 s [^s]
RuleB == [type |-> "SFX", combineable |-> TRUE,
          entries |-> << [add |-> <<"s">>, remove |-> <<>>,
                          match |-> [neg |-> TRUE, chars |-> {"s"}], continuation |-> <<>>] >>]

\* PFX P Y 1 / PFX P 0 a .
RuleP == [type |-> "PFX", combineable |-> TRUE,
          entries |-> << [add |-> <<"a">>, remove |-> <<>>,
                          match |-> NoMatch, continuation |-> <<>>] >>]

\* an .aff without directives
AffPlain ==
    [flags |-> DefaultFlags, rules |-> << >>, replacementTable |-> <<>>,
     conversion |-> [in |-> <<>>, out |-> <<>>], compoundRules |-> <<>>,
     compoundRuleCodes |-> << >>]

\* FORBIDDENWORD F, KEEPCASE K, ONLYINCOMPOUND O, NEEDAFFIX X, NOSUGGEST N,
\* WARN W, FORBIDWARN, SFX B, PFX P, REP 1 / REP sa as
AffFlags ==
    [flags |-> [DefaultFlags EXCEPT !.FORBIDDENWORD = "F", !.KEEPCASE = "K",
                                    !.ONLYINCOMPOUND = "O", !.NEEDAFFIX = "X",
                                    !.NOSUGGEST = "N", !.WARN = "W", !.FORBIDWARN = TRUE],
     rules |-> [c \in {"B", "P"} |-> IF c = "B" THEN RuleB ELSE RuleP],
     replacementTable |-> << << <<"s", "a">>, <<"a", "s">> >> >>,
     conversion |-> [in |-> <<>>, out |-> <<>>], compoundRules |-> <<>>,
     compoundRuleCodes |-> [c \in {"O"} |-> <<>>]]

\* ICONV 2 / ICONV s S / ICONV a s, OCONV 1 / OCONV S s
AffConv ==
    [flags |-> DefaultFlags, rules |-> << >>, replacementTable |-> <<>>,
     conversion |-> [in |-> << <<"s", <<"S">> >>, <<"a", <<"s">> >> >>,
                     out |-> << <<"S", <<"s">> >> >>],
     compoundRules |-> <<>>, compoundRuleCodes |-> << >>]

\* COMPOUNDMIN 1, COMPOUNDRULE 2 / COMPOUNDRULE (as) / COMPOUNDRULE BB
AffCompound ==
    [flags |-> [DefaultFlags EXCEPT !.COMPOUNDMIN = 1],
     rules |-> << >>, replacementTable |-> <<>>,
     conversion |-> [in |-> <<>>, out |-> <<>>],
     compoundRules |-> << <<"(", "a", "s", ")">>, <<"B", "B">> >>,
     compoundRuleCodes |-> [c \in {"a", "s", "B"} |-> <<>>]]

Affs == {AffPlain, AffFlags, AffConv, AffCompound}

\* REP 1 / REP ss as
AffRepAs == [AffPlain EXCEPT !.replacementTable = << << <<"s", "s">>, <<"a", "s">> >> >>]

\* REP 1 / REP ss sa
AffRepSa == [AffPlain EXCEPT !.replacementTable = << << <<"s", "s">>, <<"s", "a">> >> >>]

\* SFX C Y 1 / SFX C 0 a/B . : a second suffix rule, its entry continued by B
RuleC == [type |-> "SFX", combineable |-> TRUE,
          entries |-> << [add |-> <<"a">>, remove |-> <<>>,
                          match |-> NoMatch, continuation |-> <<"B">>] >>]

\* PFX Q N 1 / PFX Q a s a : a prefix rule that does not combine
RuleQ == [type |-> "PFX", combineable |-> FALSE,
          entries |-> << [add |-> <<"s">>, remove |-> <<"a">>,
                          match |-> [neg |-> FALSE, chars |-> {"a"}], continuation |-> <<>>] >>]

\* NEEDAFFIX X, SFX B, PFX P, SFX C, PFX Q
AffRules ==
    [flags |-> [DefaultFlags EXCEPT !.NEEDAFFIX = "X"],
     rules |-> [c \in {"B", "P", "C", "Q"} |->
                  IF c = "B" THEN RuleB ELSE IF c = "P" THEN RuleP
                  ELSE IF c = "C" THEN RuleC ELSE RuleQ],
     replacementTable |-> <<>>,
     conversion |-> [in |-> <<>>, out |-> <<>>], compoundRules |-> <<>>,
     compoundRuleCodes |-> << >>]

-----------------------------------------------------------------------------
(* The affix expander: src/src/util/apply.ts 126-196 *)

\* entry.match.test(value): a one-character class anchored at the end (SFX)
\* or at the start (PFX) of the value
matchTest(match, value, isSuffix) ==
    /\ value # <<>>
    /\ LET c == IF isSuffix THEN value[Len(value)] ELSE value[1]
       IN  IF match.neg THEN c \notin match.chars ELSE c \in match.chars

\* a variant of the loop that leaves out the continuation forms
applyEntriesLate(value, rule, rules, words, i) ==
    LET isSuffix == rule.type = "SFX"
        applies(e) == /\ e.match # NoMatch => matchTest(e.match, value, isSuffix)
                      /\ IF isSuffix THEN endsWith(value, e.remove)
                                     ELSE startsWith(value, e.remove)
        nextOf(e) == IF isSuffix
                     THEN SubSeq(value, 1, Len(value) - Len(e.remove)) \o e.add
                     ELSE e.add \o sliceFrom(value, Len(e.remove))
        own == SelectSeq(rule.entries, applies)
    IN  words \o [k \in 1..Len(own) |-> nextOf(own[k])]

RECURSIVE applyEntries(_, _, _, _, _)
RECURSIVE applyContinuation(_, _, _, _, _)
applyEntries(value, rule, rules, words, i) ==
    IF i > Len(rule.entries) THEN words
    ELSE LET entry == rule.entries[i]
             isSuffix == rule.type = "SFX"
             skipMatch == entry.match # NoMatch /\ ~matchTest(entry.match, value, isSuffix)
             skipRemove == /\ entry.remove # <<>>
                           /\ IF isSuffix THEN ~endsWith(value, entry.remove)
                                          ELSE ~startsWith(value, entry.remove)
             next == IF isSuffix
                     THEN SubSeq(value, 1, Len(value) - Len(entry.remove)) \o entry.add
                     ELSE entry.add \o sliceFrom(value, Len(entry.remove))
         IN  IF skipMatch \/ skipRemove
             THEN applyEntries(value, rule, rules, words, i + 1)
             ELSE applyEntries(value, rule, rules,
                      applyContinuation(next, entry.continuation, rules, Append(words, next), 1),
                      i + 1)
applyContinuation(next, continuation, rules, words, j) ==
    IF j > Len(continuation) THEN words
    ELSE IF continuation[j] \in DOMAIN rules
         THEN applyContinuation(next, continuation, rules,
                  applyEntries(next, rules[continuation[j]], rules, words, 1), j + 1)
         ELSE applyContinuation(next, continuation, rules, words, j + 1)

apply(value, rule, rules, words) == applyEntries(value, rule, rules, words, 1)

-----------------------------------------------------------------------------
(* Compound rules: src/src/index.ts 76-124 and 365-382 *)

\* A compiled RegExp is a sequence of atoms, each an alternation of literal
\* strings with a quantifier "1", "?" or "*"; InvalidPattern stands for a
\* pattern new RegExp rejects (the catch of line 116 drops the rule).
InvalidPattern == << [alts |-> {}, q |-> "invalid", lazy |-> FALSE] >>

RECURSIVE groupEnd(_, _)
groupEnd(rule, i) == IF i < Len(rule) /\ rule[i + 1] # ")" THEN groupEnd(rule, i + 1) ELSE i

quantify(pattern, q) ==
    IF pattern = InvalidPattern THEN pattern
    ELSE IF pattern = <<>> THEN InvalidPattern
    ELSE LET last == pattern[Len(pattern)]
         IN  IF last.q = "1" /\ ~last.lazy THEN [pattern EXCEPT ![Len(pattern)].q = q]
             ELSE IF q = "?" /\ ~last.lazy THEN [pattern EXCEPT ![Len(pattern)].lazy = TRUE]
             ELSE InvalidPattern

appendAtom(pattern, alts, q) ==
    IF pattern = InvalidPattern THEN pattern
    ELSE Append(pattern, [alts |-> alts, q |-> q, lazy |-> FALSE])

\* the while loop of lines 84-111; i is 0-based
RECURSIVE compileRule(_, _, _, _)
compileRule(rule, codes, i, pattern) ==
    IF i >= Len(rule) THEN [valid |-> TRUE, pattern |-> pattern]
    ELSE LET char == rule[i + 1]
         IN  IF char = "*" THEN compileRule(rule, codes, i + 1, quantify(pattern, "*"))
             ELSE IF char = "?" THEN compileRule(rule, codes, i + 1, quantify(pattern, "?"))
             ELSE IF char = "("
                  THEN LET e == groupEnd(rule, i + 1)
                       IN  compileRule(rule, codes, e + 1,
                               appendAtom(pattern, {slice(rule, i + 1, e)}, "?"))
             ELSE IF char \in DOMAIN codes /\ Len(codes[char]) > 0
                  THEN compileRule(rule, codes, i + 1, appendAtom(pattern, Range(codes[char]), "1"))
             ELSE [valid |-> FALSE, pattern |-> pattern]

compileOne(rule, codes) ==
    LET r == compileRule(rule, codes, 0, <<>>)
    IN  IF r.valid /\ r.pattern # <<>> /\ r.pattern # InvalidPattern THEN <<r.pattern>> ELSE <<>>

compileCompoundRules(compoundRules, codes) ==
    Flatten([k \in 1..Len(compoundRules) |-> compileOne(compoundRules[k], codes)])

\* rule.test(word) for an anchored pattern ^...$
RECURSIVE regexTest(_, _, _)
regexTest(pattern, k, word) ==
    IF k > Len(pattern) THEN word = <<>>
    ELSE LET atom == pattern[k]
             one(nextK) == \E w \in atom.alts :
                              /\ startsWith(word, w)
                              /\ (nextK = k => w # <<>>)
                              /\ regexTest(pattern, nextK, sliceFrom(word, Len(w)))
         IN  CASE atom.q = "1" -> one(k + 1)
               [] atom.q = "?" -> regexTest(pattern, k + 1, word) \/ one(k + 1)
               [] OTHER        -> regexTest(pattern, k + 1, word) \/ one(k)

checkCompound(aff, compiled, word) ==
    /\ Len(word) >= aff.flags.COMPOUNDMIN * 2
    /\ Len(compiled) # 0
    /\ \E k \in 1..Len(compiled) : regexTest(compiled[k], 1, word)

-----------------------------------------------------------------------------
(* The checker: src/src/index.ts 129-460 *)

NO_RULES == <<>>

RECURSIVE addAll(_, _, _)
addAll(d, words, j) ==
    IF j > Len(words) THEN d ELSE addAll(DawgAdd(d, words[j], NO_RULES), words, j + 1)

\* a variant of formsOfCode that pairs a derived form with every other
\* combineable rule, of the same type included
formsOfCodeAnyType(aff, word, codes, i) ==
    IF codes[i] \notin DOMAIN aff.rules THEN <<>>
    ELSE LET rule == aff.rules[codes[i]]
             newWords == apply(word, rule, aff.rules, <<>>)
             combinedOf(newWord, k) ==
                 IF /\ k # i
                    /\ codes[k] \in DOMAIN aff.rules
                    /\ aff.rules[codes[k]].combineable
                 THEN apply(newWord, aff.rules[codes[k]], aff.rules, <<>>)
                 ELSE <<>>
             withCombined(newWord) ==
                 IF rule.combineable
                 THEN <<newWord>> \o Flatten([k \in 1..Len(codes) |-> combinedOf(newWord, k)])
                 ELSE <<newWord>>
         IN  Flatten([j \in 1..Len(newWords) |-> withCombined(newWords[j])])

\* lines 214-235: the forms inserted for codes[i], in insertion order
formsOfCode(aff, word, codes, i) ==
    IF codes[i] \notin DOMAIN aff.rules THEN <<>>
    ELSE LET rule == aff.rules[codes[i]]
             newWords == apply(word, rule, aff.rules, <<>>)
             combinedOf(newWord, k) ==
                 IF /\ k # i
                    /\ codes[k] \in DOMAIN aff.rules
                    /\ aff.rules[codes[k]].combineable
                    /\ aff.rules[codes[k]].type # rule.type
                 THEN apply(newWord, aff.rules[codes[k]], aff.rules, <<>>)
                 ELSE <<>>
             withCombined(newWord) ==
                 IF rule.combineable
                 THEN <<newWord>> \o Flatten([k \in 1..Len(codes) |-> combinedOf(newWord, k)])
                 ELSE <<newWord>>
         IN  Flatten([j \in 1..Len(newWords) |-> withCombined(newWords[j])])

\* lines 203-206: compoundWords.push(word) once for every code with a bucket
pushCodes(crc, word, codes) ==
    [c \in DOMAIN crc |->
        crc[c] \o [n \in 1..Cardinality({i \in 1..Len(codes) : codes[i] = c}) |-> word]]

\* a variant of addWord that stores the derived forms and not the root
addWordFormsOnly(aff, st, word, codes) ==
    LET forms == Flatten([i \in 1..Len(codes) |-> formsOfCode(aff, word, codes, i)])
    IN  [dawg |-> addAll(st.dawg, forms, 1), crc |-> pushCodes(st.crc, word, codes)]

\* st is [dawg, crc]: the word graph and affixData.compoundRuleCodes
addWord(aff, st, word, codes) ==
    LET needAffixFlag == aff.flags.NEEDAFFIX
        d0 == IF needAffixFlag = "" \/ needAffixFlag \notin Range(codes)
              THEN DawgAdd(st.dawg, word, codes)
              ELSE st.dawg
        forms == Flatten([i \in 1..Len(codes) |-> formsOfCode(aff, word, codes, i)])
    IN  [dawg |-> addAll(d0, forms, 1), crc |-> pushCodes(st.crc, word, codes)]

\* content.indexOf(c, start), 0-based, -1 when absent
RECURSIVE indexOfChar(_, _, _)
indexOfChar(content, c, start) ==
    IF start >= Len(content) THEN -1
    ELSE IF content[start + 1] = c THEN start
    ELSE indexOfChar(content, c, start + 1)

isDigit(c) == c \in {"0", "1", "2", "3", "4", "5", "6", "7", "8", "9"}

\* /^\d+$/.test(line)
isCount(line) == line # <<>> /\ \A i \in 1..Len(line) : isDigit(line[i])

\* lines 156-163: the first "/" not preceded by a backslash, -1 when absent
RECURSIVE findSlash(_, _, _, _)
findSlash(content, start, lineEnd, j) ==
    IF j >= lineEnd THEN -1
    ELSE IF content[j + 1] = "/" /\ (j = start \/ content[j] # "\\") THEN j
    ELSE findSlash(content, start, lineEnd, j + 1)

\* parseFlags(flagStr, "short"): every character is a flag
parseFlags(flagStr) == flagStr

\* the while loop of lines 135-183
RECURSIVE loadLines(_, _, _, _, _)
loadLines(aff, st, content, start, lineCount) ==
    IF start >= Len(content) THEN st
    ELSE LET nl == indexOfChar(content, "\n", start)
             end == IF nl = -1 THEN Len(content) ELSE nl
             lineEnd == IF end > start /\ content[end] = "\r" THEN end - 1 ELSE end
             slashIndex == findSlash(content, start, lineEnd, start)
             word == IF slashIndex = -1 THEN slice(content, start, lineEnd)
                                        ELSE slice(content, start, slashIndex)
             parsedFlags == IF slashIndex = -1 THEN <<>>
                            ELSE parseFlags(slice(content, slashIndex + 1, lineEnd))
         IN  IF lineCount = 0 /\ isCount(slice(content, start, lineEnd))
             THEN loadLines(aff, st, content, end + 1, lineCount + 1)
             ELSE loadLines(aff,
                            IF word # <<>> THEN addWord(aff, st, word, parsedFlags) ELSE st,
                            content, end + 1, lineCount + 1)

loadDictionary(aff, st, content) == loadLines(aff, st, content, 0, 0)

\* lines 294-307
isValidWord(aff, flags) ==
    IF flags = <<>> THEN TRUE
    ELSE IF hasFlag(flags, aff.flags.FORBIDDENWORD) THEN FALSE
    ELSE IF "__FORBIDDEN__" \in Range(flags) THEN FALSE
    ELSE IF hasFlag(flags, aff.flags.ONLYINCOMPOUND) THEN FALSE
    ELSE TRUE

\* a variant of the fallback with the KEEPCASE test inverted
acceptsVariantInverted(aff, d, variant) ==
    /\ variant \in d.nodes /\ variant \in d.isEnd
    /\ isValidWord(aff, nodeFlags(d, variant))
    /\ hasFlag(nodeFlags(d, variant), aff.flags.KEEPCASE)

\* lines 259-285: a fallback form is accepted when it is stored, valid and
\* does not carry KEEPCASE
acceptsVariant(aff, d, variant) ==
    /\ variant \in d.nodes /\ variant \in d.isEnd
    /\ isValidWord(aff, nodeFlags(d, variant))
    /\ ~hasFlag(nodeFlags(d, variant), aff.flags.KEEPCASE)

sentenceCase(s) == charAt(s, 0) \o toLowerCase(sliceFrom(s, 1))

\* lines 243-289
correct(aff, compiled, d, word) ==
    LET trimmed == trim(word)
        conversions == aff.conversion.in
        normalized == IF Len(conversions) > 0 THEN normalize(trimmed, conversions) ELSE trimmed
        lower == toLowerCase(normalized)
    IN  IF word = <<>> \/ trimmed = <<>> THEN FALSE
        ELSE IF normalized \in d.nodes /\ normalized \in d.isEnd
             THEN isValidWord(aff, nodeFlags(d, normalized))
        ELSE IF lower # normalized /\ acceptsVariant(aff, d, lower) THEN TRUE
        ELSE IF /\ normalized = toUpperCase(normalized) /\ Len(normalized) > 1
                /\ acceptsVariant(aff, d, sentenceCase(normalized))
             THEN TRUE
        ELSE checkCompound(aff, compiled, normalized)


\* a variant of shouldIgnore that does not look at KEEPCASE
shouldIgnoreForbiddenOnly(aff, d, word, all) ==
    ~all /\ hasFlag(getFlags(d, word), aff.flags.FORBIDDENWORD)

\* src/src/util/form.ts 77-80
shouldIgnore(aff, d, word, all) ==
    \/ hasFlag(getFlags(d, word), aff.flags.KEEPCASE)
    \/ (~all /\ hasFlag(getFlags(d, word), aff.flags.FORBIDDENWORD))

\* src/src/util/form.ts 21-72; <<"null">> is null
form(aff, d, value, all) ==
    LET trimmed == trim(value)
        normal == normalize(trimmed, aff.conversion.in)
        alternative == charAt(normal, 0) \o toLowerCase(sliceFrom(normal, 1))
        lower == toLowerCase(normal)
    IN  IF trimmed = <<>> THEN <<"null">>
        ELSE IF has(d, normal)
             THEN IF ~all /\ hasFlag(getFlags(d, normal), aff.flags.FORBIDDENWORD) THEN <<"null">>
                  ELSE IF hasFlag(getFlags(d, normal), aff.flags.ONLYINCOMPOUND) THEN <<"null">>
                  ELSE normal
        ELSE IF /\ toUpperCase(normal) = normal
                /\ ~shouldIgnore(aff, d, alternative, all)
                /\ has(d, alternative)
             THEN alternative
        ELSE IF lower # normal /\ ~shouldIgnore(aff, d, lower, all) /\ has(d, lower)
             THEN lower
        ELSE <<"null">>

\* a variant of spell in which FORBIDWARN does not clear correct
spellKeepWarned(aff, compiled, d, word) ==
    LET none == [correct |-> FALSE, forbidden |-> FALSE, warn |-> FALSE]
        normalized == normalize(trim(word), aff.conversion.in)
        foundForm == form(aff, d, normalized, TRUE)
        flags == getFlags(d, foundForm)
        isForbidden == hasFlag(flags, aff.flags.FORBIDDENWORD) \/ hasFlag(flags, "__FORBIDDEN__")
    IN  IF word = <<>> \/ normalized = <<>> THEN none
        ELSE IF foundForm # <<"null">>
             THEN [correct   |-> ~isForbidden,
                   forbidden |-> isForbidden,
                   warn      |-> hasFlag(flags, aff.flags.WARN)]
        ELSE [none EXCEPT !.correct = checkCompound(aff, compiled, normalized)]

\* src/src/index.ts 312-360
spell(aff, compiled, d, word) ==
    LET none == [correct |-> FALSE, forbidden |-> FALSE, warn |-> FALSE]
        normalized == normalize(trim(word), aff.conversion.in)
        foundForm == form(aff, d, normalized, TRUE)
        flags == getFlags(d, foundForm)
        isForbidden == hasFlag(flags, aff.flags.FORBIDDENWORD) \/ hasFlag(flags, "__FORBIDDEN__")
        isWarn == hasFlag(flags, aff.flags.WARN)
    IN  IF word = <<>> \/ normalized = <<>> THEN none
        ELSE IF foundForm # <<"null">>
             THEN [correct   |-> ~isForbidden /\ ~(isWarn /\ aff.flags.FORBIDWARN),
                   forbidden |-> isForbidden,
                   warn      |-> isWarn]
        ELSE [none EXCEPT !.correct = checkCompound(aff, compiled, normalized)]

\* a variant of add that ignores the model word
addWithoutModel(aff, st, word, model) ==
    IF word = <<>> THEN st ELSE addWord(aff, st, word, <<>>)

\* a variant of add without the test of the empty word
addUnguarded(aff, st, word, model) ==
    addWord(aff, st, word, IF model # <<>> THEN getFlags(st.dawg, model) ELSE <<>>)

\* src/src/index.ts 396-406; the absent model is <<>>
add(aff, st, word, model) ==
    IF word = <<>> THEN st
    ELSE addWord(aff, st, word, IF model # <<>> THEN getFlags(st.dawg, model) ELSE <<>>)

\* src/src/index.ts 411-414
remove(aff, st, word) == [st EXCEPT !.dawg = DawgRemove(st.dawg, word)]

\* src/src/index.ts 419-422
dictionary(aff, st, dic) == loadDictionary(aff, st, dic)

\* splitLines: text.split(/\r?\n/)
RECURSIVE splitLines(_)
splitLines(text) ==
    LET nl == indexOfChar(text, "\n", 0)
        cut == IF nl > 0 /\ text[nl] = "\r" THEN nl - 1 ELSE nl
    IN  IF nl = -1 THEN <<text>>
        ELSE <<slice(text, 0, cut)>> \o splitLines(sliceFrom(text, nl + 1))

\* a variant of personal that replaces the flags of a forbidden word
personalLineOverwrite(aff, st, line) ==
    LET trimmed == trim(line)
        forbiddenFlag == IF aff.flags.FORBIDDENWORD # "" THEN aff.flags.FORBIDDENWORD
                         ELSE "__FORBIDDEN__"
        slashIdx == indexOfChar(trimmed, "/", 0)
    IN  IF trimmed = <<>> THEN st
        ELSE IF trimmed[1] = "*"
             THEN [st EXCEPT !.dawg = DawgAdd(st.dawg, sliceFrom(trimmed, 1), <<forbiddenFlag>>)]
        ELSE IF slashIdx # -1
             THEN add(aff, st, slice(trimmed, 0, slashIdx), sliceFrom(trimmed, slashIdx + 1))
        ELSE add(aff, st, trimmed, <<>>)

\* src/src/index.ts 436-456: one line of a personal dictionary
personalLine(aff, st, line) ==
    LET trimmed == trim(line)
        forbiddenFlag == IF aff.flags.FORBIDDENWORD # "" THEN aff.flags.FORBIDDENWORD
                         ELSE "__FORBIDDEN__"
        slashIdx == indexOfChar(trimmed, "/", 0)
    IN  IF trimmed = <<>> THEN st
        ELSE IF trimmed[1] = "*"
             THEN LET word == sliceFrom(trimmed, 1)
                      existingFlags == getFlags(st.dawg, word)
                  IN  [st EXCEPT !.dawg = DawgAdd(st.dawg, word, Append(existingFlags, forbiddenFlag))]
        ELSE IF slashIdx # -1
             THEN add(aff, st, slice(trimmed, 0, slashIdx), sliceFrom(trimmed, slashIdx + 1))
        ELSE add(aff, st, trimmed, <<>>)

RECURSIVE personalLines(_, _, _, _)
personalLines(aff, st, lines, k) ==
    IF k > Len(lines) THEN st
    ELSE personalLines(aff, personalLine(aff, st, lines[k]), lines, k + 1)

\* src/src/index.ts 432-459
personal(aff, st, dic) == personalLines(aff, st, splitLines(dic), 1)

-----------------------------------------------------------------------------
(* The suggestion engine: src/src/util/suggest.ts and src/src/util/keyboard.ts *)

\* QWERTY_ADJACENCY, cut down to the letters of the model: a: 'qwsz', s: 'awedxz'
getAdjacentKeys(char) ==
    CASE toLowerChar(char) = "a" -> <<"s">>
      [] toLowerChar(char) = "s" -> <<"a">>
      [] OTHER -> <<>>

\* keyboard.ts 131-146
generateKeyboardEdits(word) ==
    LET lower == toLowerCase(word)
        at(i) == LET adjacents == getAdjacentKeys(lower[i + 1])
                 IN  [k \in 1..Len(adjacents) |->
                        slice(lower, 0, i) \o <<adjacents[k]>> \o sliceFrom(lower, i + 1)]
    IN  Flatten([n \in 1..Len(lower) |-> at(n - 1)])

\* keyboard.ts 152-162
generateSwapEdits(word) ==
    LET lower == toLowerCase(word)
    IN  [n \in 1..(IF Len(lower) = 0 THEN 0 ELSE Len(lower) - 1) |->
            slice(lower, 0, n - 1) \o <<lower[n + 1], lower[n]>> \o sliceFrom(lower, n + 1)]

\* suggest.ts 31-47
getMapEquivalents(char, mapGroups) ==
    LET lower == toLowerChar(char)
        ofGroup(group) ==
            IF lower \in Range(toLowerCase(group))
            THEN LET other(c) == toLowerChar(c) # lower
                 IN  toLowerCase(SelectSeq(group, other))
            ELSE <<>>
    IN  Flatten([g \in 1..Len(mapGroups) |-> ofGroup(mapGroups[g])])

\* suggest.ts 156-162: strategy 1, the replacement table
replacementCandidates(aff, normalized) ==
    LET ofPair(pair) ==
            LET from == pair[1]
                to == pair[2]
                hit(offset) == startsWith(sliceFrom(normalized, offset), from)
                one(offset) == IF hit(offset)
                               THEN << slice(normalized, 0, offset) \o to
                                       \o sliceFrom(normalized, offset + Len(from)) >>
                               ELSE <<>>
            IN  Flatten([n \in 1..Len(normalized) |-> one(n - 1)])
    IN  Flatten([k \in 1..Len(aff.replacementTable) |-> ofPair(aff.replacementTable[k])])

\* group.indexOf(c), 1-based, 0 when absent
indexIn(group, c) == IF c \in Range(group) THEN CHOOSE j \in 1..Len(group) :
                                                   group[j] = c /\ \A k \in 1..(j - 1) : group[k] # c
                     ELSE 0

\* suggest.ts 165-190: strategy 2, the KEY groups
keyCandidates(aff, normalized) ==
    LET at(i) ==
            LET character == normalized[i + 1]
                insensitive == toLowerChar(character)
                upper == insensitive # character
                ofGroup(group) ==
                    LET position == indexIn(group, insensitive)
                        others == {j \in 1..Len(group) : j # position}
                                    IN  IF position = 0 THEN <<>>
                        ELSE [k \in 1..Cardinality(others) |->
                                group[CHOOSE j \in others :
                                        Cardinality({m \in others : m < j}) = k - 1]]
                chars == DedupSeq(Flatten([g \in 1..Len(aff.flags.KEY) |-> ofGroup(aff.flags.KEY[g])]))
            IN  [k \in 1..Len(chars) |->
                    slice(normalized, 0, i)
                    \o <<IF upper THEN toUpperChar(chars[k]) ELSE chars[k]>>
                    \o sliceFrom(normalized, i + 1)]
    IN  Flatten([n \in 1..Len(normalized) |-> at(n - 1)])

\* suggest.ts 197-211: strategy 4, MAP
mapCandidates(aff, normalized) ==
    LET at(i) ==
            LET character == normalized[i + 1]
                upper == toLowerChar(character) # character
                variants == getMapEquivalents(character, aff.flags.MAP)
            IN  [k \in 1..Len(variants) |->
                    slice(normalized, 0, i)
                    \o <<IF upper THEN toUpperChar(variants[k]) ELSE variants[k]>>
                    \o sliceFrom(normalized, i + 1)]
    IN  IF Len(aff.flags.MAP) > 0 THEN Flatten([n \in 1..Len(normalized) |-> at(n - 1)]) ELSE <<>>

\* suggest.ts 219-236: one round of the loop of strategy 5; st is
\* [values, max, distance]
doubleStep(normalized, st, i) ==
    LET character == charAt(normalized, i)
        nextCharacter == charAt(normalized, i + 1)
        replacement == IF character = nextCharacter THEN <<>> ELSE character \o character
        count == Len(st.values)
        pushed == [j \in 1..Min(count, st.max + 1) |-> st.values[j] \o replacement]
        values == [j \in 1..count |-> st.values[j] \o character] \o pushed
    IN  [values   |-> values,
         max      |-> IF st.distance + 1 < 3 THEN Len(values) ELSE st.max,
         distance |-> st.distance + 1]

RECURSIVE doubleLoop(_, _, _)
doubleLoop(normalized, st, i) ==
    IF i >= Len(normalized) THEN st
    ELSE doubleLoop(normalized, doubleStep(normalized, st, i), i + 1)

doubleCandidates(normalized) ==
    doubleLoop(normalized, [values |-> << <<>> >>, max |-> 1, distance |-> 0], 0).values

\* suggest.ts 240-248: strategy 6, the case variations
caseValues(normalized) ==
    LET lower == toLowerCase(normalized)
        upper == toUpperCase(normalized)
    IN  <<normalized>>
        \o (IF normalized = lower \/ detectCasing(normalized) = "null"
            THEN << toUpperCase(charAt(normalized, 0)) \o sliceFrom(lower, 1) >> ELSE <<>>)
        \o (IF normalized # upper THEN <<upper>> ELSE <<>>)

\* suggest.ts 477-481
hasNoSuggestFlag(aff, d, word) ==
    aff.flags.NOSUGGEST # "" /\ aff.flags.NOSUGGEST \in Range(getFlags(d, word))

\* suggest.ts 273-281 and 359-366: the validity of a candidate
isValidCandidate(aff, d, candidate) ==
    LET lower == toLowerCase(candidate)
    IN  IF has(d, candidate) THEN ~hasNoSuggestFlag(aff, d, candidate)
        ELSE IF lower # candidate /\ has(d, lower) THEN ~hasNoSuggestFlag(aff, d, lower)
        ELSE FALSE

switchCase(fragment) ==
    IF fragment = <<>> THEN <<>>
    ELSE << IF toLowerChar(fragment[1]) = fragment[1] THEN toUpperChar(fragment[1])
            ELSE toLowerChar(fragment[1]) >> \o sliceFrom(fragment, 1)

isUpperChar(c) == toLowerChar(c) # c

\* suggest.ts 305-348: the values passed to checkAndAdd at one position
editsAt(aff, word, position) ==
    LET before == slice(word, 0, position)
        after == sliceFrom(word, position)
        nextAfter == sliceFrom(word, position + 1)
        nextNextAfter == sliceFrom(word, position + 2)
        character == charAt(word, position)
        nextChar == charAt(word, position + 1)
        upper == isUpperChar(word[Min(position, Len(word) - 1) + 1])
        nextUpper == isUpperChar(word[Min(position + 1, Len(word) - 1) + 1])
        wordCase == detectCasing(word)
        characters == aff.flags.TRY
        ofInject(inject) ==
            LET injectUpper == toUpperChar(inject)
            IN  IF upper /\ inject # injectUpper
                THEN (IF wordCase # "lower"
                      THEN << before \o <<inject>> \o after, before \o <<inject>> \o nextAfter >>
                      ELSE <<>>)
                     \o << before \o <<injectUpper>> \o after, before \o <<injectUpper>> \o nextAfter >>
                ELSE << before \o <<inject>> \o after, before \o <<inject>> \o nextAfter >>
    IN  (IF nextAfter # <<>> /\ upper # nextUpper
         THEN << before \o switchCase(nextAfter),
                 before \o switchCase(nextChar) \o switchCase(character) \o nextNextAfter >>
         ELSE <<>>)
        \o << before \o nextAfter >>
        \o (IF nextAfter # <<>> THEN << before \o nextChar \o character \o nextNextAfter >> ELSE <<>>)
        \o Flatten([k \in 1..Len(characters) |-> ofInject(characters[k])])

\* suggest.ts 296-349: every value passed to checkAndAdd, in call order
editDistance1Calls(aff, values) ==
    LET ofWord(word) == Flatten([n \in 1..(Len(word) + 1) |-> editsAt(aff, word, n - 1)])
    IN  Flatten([k \in 1..Len(values) |-> ofWord(values[k])])

\* suggest.ts 351-374: checkAndAdd over a run of calls; mem is
\* [seen, editDistance1, validCandidates]: the keys of memory.state, the
\* list editDistance1 and the list validCandidates (memory.candidates holds
\* the same words in the same order)
checkAndAddAll(aff, d, mem, calls) ==
    LET unseen(x) == x \notin mem.seen
        fresh == SelectSeq(DedupSeq(calls), unseen)
        valid(x) == isValidCandidate(aff, d, x)
    IN  [seen |-> mem.seen \cup Range(fresh),
         editDistance1 |-> mem.editDistance1 \o fresh,
         validCandidates |-> mem.validCandidates \o SelectSeq(fresh, valid)]

\* suggest.ts 265-289: the validation of rawCandidates
validateRaw(aff, d, rawCandidates) ==
    LET fresh == DedupSeq(rawCandidates)
        valid(x) == isValidCandidate(aff, d, x)
    IN  [seen |-> Range(fresh), editDistance1 |-> <<>>, validCandidates |-> SelectSeq(fresh, valid)]

MIN_GOOD_SUGGESTIONS == 5

TARGET_SUGGESTIONS == 10

cube(n) == n * n * n

\* suggest.ts 392-396
maxIterationsOf(normalized, editDistance1) ==
    Min(Len(editDistance1), cube(Max(15 - Len(normalized), 3)))

batchSizeOf(normalized) == Max(cube(10 - Len(normalized)), 1)

\* suggest.ts 399-409: one round of the while loop, from index previous
ed2Round(aff, d, mem, previous, batchSize) ==
    LET batch == slice(mem.editDistance1, previous, previous + batchSize)
        deletes(word) == [n \in 1..Len(word) |-> slice(word, 0, n - 1) \o sliceFrom(word, n)]
    IN  checkAndAddAll(aff, d, mem, Flatten([k \in 1..Len(batch) |-> deletes(batch[k])]))

\* suggest.ts 398-411
RECURSIVE ed2Loop(_, _, _, _, _, _)
ed2Loop(aff, d, mem, previous, maxIterations, batchSize) ==
    IF Len(mem.validCandidates) < TARGET_SUGGESTIONS /\ previous < maxIterations
    THEN LET m == ed2Round(aff, d, mem, previous, batchSize)
         IN  IF Len(m.validCandidates) >= MIN_GOOD_SUGGESTIONS THEN m
             ELSE ed2Loop(aff, d, m, previous + batchSize, maxIterations, batchSize)
    ELSE mem

\* suggest.ts 388-412
editDistance2(aff, d, mem, normalized) ==
    IF Len(mem.validCandidates) < MIN_GOOD_SUGGESTIONS
    THEN ed2Loop(aff, d, mem, 0, maxIterationsOf(normalized, mem.editDistance1),
                 batchSizeOf(normalized))
    ELSE mem

\* the elements of a finite set as a list
RECURSIVE SeqOf(_)
SeqOf(S) == IF S = {} THEN <<>> ELSE LET x == CHOOSE y \in S : TRUE IN <<x>> \o SeqOf(S \ {x})

\* dawg.getPrefixMatches(prefix, limit): the stored words that start with
\* prefix, limit of them at most
getPrefixMatches(d, prefix, limit) ==
    LET words == SeqOf({w \in d.isEnd : w \in d.nodes /\ startsWith(w, prefix)})
    IN  slice(words, 0, limit)

\* suggest.ts 250-259: strategy 7, the stored words sharing a prefix
prefixCandidates(d, normalized) ==
    LET minPrefixLen == Max(1, Len(normalized) \div 2)
        count == Max(0, Len(normalized) - minPrefixLen)
        ofLen(prefixLen) == getPrefixMatches(d, toLowerCase(slice(normalized, 0, prefixLen)), 20)
    IN  Flatten([k \in 1..count |-> ofLen(Len(normalized) - k)])

\* suggest.ts 153-259: rawCandidates, in push order; doubles is the list
\* strategy 5 built
rawCandidatesOf(aff, d, normalized, doubles) ==
    replacementCandidates(aff, normalized)
    \o keyCandidates(aff, normalized)
    \o generateKeyboardEdits(normalized)
    \o generateSwapEdits(normalized)
    \o mapCandidates(aff, normalized)
    \o doubles
    \o prefixCandidates(d, normalized)

\* suggest.ts 261-374: memory after the validation of rawCandidates and
\* the edit-distance-1 stage
editDistance1Stage(aff, d, normalized, doubles) ==
    checkAndAddAll(aff, d, validateRaw(aff, d, rawCandidatesOf(aff, d, normalized, doubles)),
                   editDistance1Calls(aff, caseValues(normalized)))

\* suggest.ts 414-452: the candidates in rank order.  finalScore adds
\* getFrequencyScore of ./frequency, which the source tree does not hold, so
\* the rank order is left open: the rotations of the insertion order and of
\* its reverse
sortOrders(candidates) ==
    LET n == Len(candidates)
        rot(k) == [i \in 1..n |-> candidates[((i + k - 1) % n) + 1]]
        rev(c) == [i \in 1..n |-> c[n + 1 - i]]
    IN  IF n = 0 THEN {<<>>}
        ELSE {rot(k) : k \in 0..(n - 1)} \cup {rev(rot(k)) : k \in 0..(n - 1)}

\* a variant of the output stage that drops the case-insensitive set
outputLoopNoDedup(aff, sorted, i, result) ==
    [k \in 1..Min(Len(sorted), 10) |->
        [word |-> sorted[k], output |-> denormalize(sorted[k], aff.conversion.out)]]

\* suggest.ts 456-471: the output stage; an entry of the result is the
\* candidate and its output form
RECURSIVE outputLoop(_, _, _, _)
outputLoop(aff, sorted, i, result) ==
    IF i > Len(sorted) \/ Len(result) >= 10 THEN result
    ELSE LET output == denormalize(sorted[i], aff.conversion.out)
             lower == toLowerCase(output)
         IN  IF \E k \in 1..Len(result) : toLowerCase(result[k].output) = lower
             THEN outputLoop(aff, sorted, i + 1, result)
             ELSE outputLoop(aff, sorted, i + 1,
                             Append(result, [word |-> sorted[i], output |-> output]))

\* suggest.ts 153-412: the valid candidates of a misspelt normalized token, in
\* the order the stages found them
candidatesOf(aff, d, normalized) ==
    editDistance2(aff, d, editDistance1Stage(aff, d, normalized, doubleCandidates(normalized)),
                  normalized).validCandidates

\* suggest.ts 127-472, index.ts 387-391: every list suggest may return
suggest(aff, compiled, d, value) ==
    LET normalized == normalize(trim(value), aff.conversion.in)
    IN  IF normalized = <<>> \/ correct(aff, compiled, d, normalized) THEN {<<>>}
        ELSE LET mem == editDistance2(aff, d, editDistance1Stage(aff, d, normalized,
                                                                 doubleCandidates(normalized)),
                                      normalized)
             IN  {outputLoop(aff, o, 1, <<>>) : o \in sortOrders(mem.validCandidates)}

-----------------------------------------------------------------------------
(* The affix parser: src/src/util/affix.ts 47-297 *)

\* A line of the .aff text is the list of its parts, line.split(/\s+/): the
\* directive, a string, then the other parts, sequences of characters.  An
\* empty line is <<>>, a comment is a line whose first part is "#".

\* parts[k], 0-based; <<>> stands for undefined
part(parts, k) == IF k + 1 <= Len(parts) THEN parts[k + 1] ELSE <<>>

directiveOf(parts) == IF parts = <<>> THEN "" ELSE parts[1]

digitValue(c) == CHOOSE n \in 0..9 : <<"0", "1", "2", "3", "4", "5", "6", "7", "8", "9">>[n + 1] = c

\* parseInt(str, 10) on an unsigned token: the value of the leading digits,
\* NaN when there is none
RECURSIVE parseDigits(_, _, _)
parseDigits(str, k, acc) ==
    IF k > Len(str) \/ ~isDigit(str[k]) THEN acc
    ELSE parseDigits(str, k + 1, 10 * acc + digitValue(str[k]))

parseInt(str) ==
    IF str = <<>> \/ ~isDigit(str[1]) THEN [isNaN |-> TRUE, n |-> 0]
    ELSE [isNaN |-> FALSE, n |-> parseDigits(str, 1, 0)]

\* lines 62-70: empty lines and comments are dropped
filterLines(rawLines) == SelectSeq(rawLines, LAMBDA l : l # <<>> /\ l[1] # "#")

\* the lines lines[i + j] the loops "j <= count && i + j < lines.length" visit
entryLines(lines, i, count) ==
    IF count.isNaN THEN <<>>
    ELSE [j \in 1..Max(0, Min(count.n, Len(lines) - 1 - i)) |-> lines[i + j + 1]]

\* endRegex / startRegex of a condition: ".", a letter, [x] or [^x]
matchOf(condition) ==
    IF condition = <<>> \/ condition = <<".">> THEN NoMatch
    ELSE IF Len(condition) = 4 /\ condition[2] = "^"
         THEN [neg |-> TRUE, chars |-> {condition[3]}]
    ELSE IF Len(condition) = 3 THEN [neg |-> FALSE, chars |-> {condition[2]}]
    ELSE [neg |-> FALSE, chars |-> {condition[Len(condition)]}]

zeroIsEmpty(str) == IF str = <<"0">> THEN <<>> ELSE str

\* lines 156-189: one entry line of a PFX or SFX block
affixEntry(entryParts) ==
    LET addWithFlags == part(entryParts, 3)
        slash == indexOfChar(addWithFlags, "/", 0)
        addPart == IF addWithFlags = <<>> THEN <<"0">>
                   ELSE IF slash = -1 THEN addWithFlags ELSE slice(addWithFlags, 0, slash)
        flagPart == IF addWithFlags = <<>> \/ slash = -1 THEN <<>>
                    ELSE LET rest == sliceFrom(addWithFlags, slash + 1)
                             cut == indexOfChar(rest, "/", 0)
                         IN  IF cut = -1 THEN rest ELSE slice(rest, 0, cut)
    IN  [add |-> zeroIsEmpty(addPart), remove |-> zeroIsEmpty(part(entryParts, 2)),
         match |-> matchOf(part(entryParts, 4)),
         continuation |-> [k \in 1..Len(parseFlags(flagPart)) |-> <<parseFlags(flagPart)[k]>>]]

setKey(f, key, value) == [k \in (DOMAIN f) \cup {key} |-> IF k = key THEN value ELSE f[k]]

\* the flags a COMPOUNDRULE pattern registers a bucket for; in the parser's
\* result a flag is a string as the text holds it, a sequence of characters
ruleCodes(rule) == {<<rule[k]>> : k \in {x \in 1..Len(rule) : rule[x] \notin {"*", "?", "(", ")"}}}

withBuckets(crc, codes) == [c \in (DOMAIN crc) \cup codes |-> IF c \in DOMAIN crc THEN crc[c] ELSE <<>>]

\* lines 198-216: the lower-case letters of the TRY part, then the letters of
\* the alphabet it lacks
tryChars(str) ==
    SelectSeq(str, LAMBDA c : c = toLowerChar(c))
        \o SelectSeq(ALPHABET, LAMBDA c : c \notin Range(str))

\* parts[1].split("|")
RECURSIVE splitBar(_)
splitBar(str) ==
    LET bar == indexOfChar(str, "|", 0)
    IN  IF bar = -1 THEN <<str>>
        ELSE <<slice(str, 0, bar)>> \o splitBar(sliceFrom(str, bar + 1))

NamedFlags ==
    {"NOSUGGEST", "WARN", "FORBIDDENWORD", "KEEPCASE", "NEEDAFFIX", "WORDCHARS",
     "COMPOUNDFLAG", "COMPOUNDBEGIN", "COMPOUNDMIDDLE", "COMPOUNDLAST"}

CountedDirectives == {"REP", "ICONV", "OCONV", "COMPOUNDRULE", "PFX", "SFX"}

\* the part holding the count of a block
countOf(parts) ==
    parseInt(part(parts, IF directiveOf(parts) \in {"PFX", "SFX"} THEN 3 ELSE 1))

\* the body of one case of the switch (lines 78-275): the data after the
\* directive at lines[i]
parseDirective(lines, i, data) ==
    LET parts == lines[i + 1]
        directive == directiveOf(parts)
        p1 == part(parts, 1)
        entries == entryLines(lines, i, countOf(parts))
    IN  CASE directive = "REP" ->
               LET ok == SelectSeq(entries, LAMBDA e : /\ directiveOf(e) = "REP"
                                                      /\ part(e, 1) # <<>> /\ part(e, 2) # <<>>)
               IN  [data EXCEPT !.replacementTable =
                        @ \o [k \in 1..Len(ok) |-> <<part(ok[k], 1), part(ok[k], 2)>>]]
          [] directive \in {"ICONV", "OCONV"} ->
               LET ok == SelectSeq(entries, LAMBDA e : /\ directiveOf(e) = directive
                                                      /\ part(e, 1) # <<>> /\ part(e, 2) # <<>>)
                   pairs == [k \in 1..Len(ok) |-> <<part(ok[k], 1), part(ok[k], 2)>>]
               IN  IF directive = "ICONV"
                   THEN [data EXCEPT !.conversion.in = @ \o pairs]
                   ELSE [data EXCEPT !.conversion.out = @ \o pairs]
          [] directive = "COMPOUNDRULE" ->
               LET ok == SelectSeq(entries, LAMBDA e : /\ directiveOf(e) = "COMPOUNDRULE"
                                                      /\ part(e, 1) # <<>>)
               IN  [data EXCEPT
                      !.compoundRules = @ \o [k \in 1..Len(ok) |-> part(ok[k], 1)],
                      !.compoundRuleCodes =
                          withBuckets(@, UNION {ruleCodes(part(ok[k], 1)) : k \in 1..Len(ok)})]
          [] directive \in {"PFX", "SFX"} ->
               LET ok == SelectSeq(entries, LAMBDA e : /\ directiveOf(e) = directive
                                                      /\ part(e, 1) = p1)
                   rule == [type |-> directive, combineable |-> part(parts, 2) = <<"Y">>,
                            entries |-> [k \in 1..Len(ok) |-> affixEntry(ok[k])]]
               IN  [data EXCEPT !.rules = setKey(@, p1, rule)]
          [] directive = "TRY" -> [data EXCEPT !.flags.TRY = tryChars(p1)]
          [] directive = "KEY" ->
               [data EXCEPT !.flags.KEY = @ \o (IF p1 # <<>> THEN splitBar(p1) ELSE <<>>)]
          [] directive = "COMPOUNDMIN" ->
               [data EXCEPT !.flags.COMPOUNDMIN =
                    IF parseInt(p1).isNaN \/ parseInt(p1).n = 0 THEN 3 ELSE parseInt(p1).n]
          [] directive = "ONLYINCOMPOUND" ->
               [data EXCEPT !.flags.ONLYINCOMPOUND = p1,
                            !.compoundRuleCodes = IF p1 # <<>> THEN setKey(@, p1, <<>>) ELSE @]
          [] directive = "FLAG" ->
               IF p1 \in {<<"l", "o", "n", "g">>, <<"n", "u", "m">>, <<"U", "T", "F", "-", "8">>}
               THEN [data EXCEPT !.flags = setKey(@, "FLAG", p1)] ELSE data
          [] directive \in NamedFlags -> [data EXCEPT !.flags = setKey(@, directive, p1)]
          [] directive = "FORBIDWARN" -> [data EXCEPT !.flags.FORBIDWARN = TRUE]
          [] OTHER -> IF p1 # <<>> THEN [data EXCEPT !.flags = setKey(@, directive, p1)] ELSE data

\* the while loop of lines 72-278; a counted block ends with i += count, and
\* when count is NaN i is NaN from then on and "i < lines.length" is false
RECURSIVE parseLines(_, _, _)
parseLines(lines, i, data) ==
    IF i >= Len(lines) THEN data
    ELSE LET parts == lines[i + 1]
             counted == directiveOf(parts) \in CountedDirectives
             count == countOf(parts)
             after == parseDirective(lines, i, data)
         IN  IF counted /\ count.isNaN THEN after
             ELSE parseLines(lines, i + (IF counted THEN count.n ELSE 0) + 1, after)

\* the flags the parser starts from (lines 53-57), unset flags are <<>>
InitialFlags ==
    [f \in NamedFlags \cup {"ONLYINCOMPOUND", "FORBIDWARN", "COMPOUNDMIN", "KEY", "TRY"} |->
        IF f = "FORBIDWARN" THEN FALSE
        ELSE IF f = "COMPOUNDMIN" THEN DefaultFlags.COMPOUNDMIN
        ELSE <<>>]

\* parseAffix on the lines of the text; lines 280-287 apply the defaults
parseAffix(rawLines) ==
    LET start == [flags |-> InitialFlags, rules |-> << >>, replacementTable |-> <<>>,
                  conversion |-> [in |-> <<>>, out |-> <<>>], compoundRules |-> <<>>,
                  compoundRuleCodes |-> << >>]
        data == parseLines(filterLines(rawLines), 0, start)
    IN  [data EXCEPT !.flags.KEY = IF Len(@) = 0 THEN DEFAULT_KEYBOARD ELSE @,
                     !.flags.TRY = IF Len(@) = 0 THEN ALPHABET ELSE @]

-----------------------------------------------------------------------------
(* The LRU cache: src/src/util/lru-cache.ts *)

\* A Map is the sequence of its entries <<key, value>> in insertion order;
\* Undefined is the value undefined.
Undefined == "undefined"

mapKeys(entries) == [i \in 1..Len(entries) |-> entries[i][1]]

mapHas(entries, key) == key \in Range(mapKeys(entries))

mapGet(entries, key) ==
    IF mapHas(entries, key)
    THEN entries[CHOOSE i \in 1..Len(entries) : entries[i][1] = key][2]
    ELSE Undefined

mapDelete(entries, key) == SelectSeq(entries, LAMBDA e : e[1] # key)

\* Map.set: a key that is present keeps its place
mapSet(entries, key, value) ==
    IF mapHas(entries, key)
    THEN [i \in 1..Len(entries) |-> IF entries[i][1] = key THEN <<key, value>> ELSE entries[i]]
    ELSE Append(entries, <<key, value>>)

\* a variant of get that leaves the key in its place
LRUGetInPlace(c, key) == [cache |-> c, value |-> mapGet(c.entries, key)]

\* lines 24-32: the cache after the call and the value returned
LRUGet(c, key) ==
    LET value == mapGet(c.entries, key)
    IN  [cache |-> IF value # Undefined
                   THEN [c EXCEPT !.entries = mapSet(mapDelete(c.entries, key), key, value)]
                   ELSE c,
         value |-> value]

\* lines 38-49
LRUSet(c, key, value) ==
    LET kept == IF mapHas(c.entries, key) THEN mapDelete(c.entries, key)
                ELSE IF Len(c.entries) >= c.maxSize /\ c.entries # <<>>
                     THEN mapDelete(c.entries, c.entries[1][1])
                     ELSE c.entries
    IN  [c EXCEPT !.entries = mapSet(kept, key, value)]

-----------------------------------------------------------------------------
(* The checker as a state machine *)

\* the words the calls are made with
W_as == <<"a", "s">>
W_As == <<"A", "s">>
W_AS == <<"A", "S">>
W_aS == <<"a", "S">>
W_a  == <<"a">>
W_ass == <<"a", "s", "s">>
W_sa == <<"s", "a">>
W_sS == <<"s", "S">>

Words == {W_as, W_As, W_AS, W_aS}

\* the models add is called with; <<>> is the absent model
Models == {<<>>, W_as}

\* the lines dictionary is called with: word, flag string
DicLines ==
    { <<W_as, <<>> >>, <<W_As, <<>> >>, <<W_AS, <<>> >>, <<W_aS, <<>> >>,
      <<W_as, <<"B">> >>, <<W_as, <<"F">> >>, <<W_as, <<"K">> >>, <<W_as, <<"O">> >>,
      <<W_as, <<"B", "P">> >>, <<W_as, <<"X", "B">> >>,
      <<W_As, <<"K">> >>, <<W_AS, <<"F">> >>, <<W_a, <<"B">> >> }

DicLine(w, fs) == IF fs = <<>> THEN w ELSE w \o <<"/">> \o fs

\* the lines of a file, joined by line feeds
RECURSIVE joinLines(_)
joinLines(lines) ==
    IF lines = <<>> THEN <<>>
    ELSE IF Len(lines) = 1 THEN lines[1]
    ELSE lines[1] \o <<"\n">> \o joinLines(Tail(lines))

NoOp == [op |-> "new", word |-> <<>>, arg |-> <<>>]

NoMemory == [seen |-> {}, editDistance1 |-> <<>>, validCandidates |-> <<>>]

\* no LRUCache constructed
NoCache == [entries |-> <<>>, maxSize |-> 0, history |-> <<>>]

\* no suggest call in progress
IdleRun ==
    [phase |-> "idle", normalized |-> <<>>, values |-> <<>>, max |-> 0, distance |-> 0,
     position |-> 0, growth |-> 0, mem |-> NoMemory, previous |-> 0, maxIterations |-> 0,
     batchSize |-> 0, expanded |-> 0]

St == [dawg |-> dawg, crc |-> compoundRuleCodes]

\* a mutator call: st is the checker after it, bound the number of calls
\* explored; the words the call inserted are no longer "removed"
ApplyWithin(st, op, bound) ==
    /\ nOps < bound
    /\ nOps' = nOps + 1
    /\ dawg' = st.dawg
    /\ compoundRuleCodes' = st.crc
    /\ lastOp' = op
    /\ removed' = IF op.op = "remove" THEN removed \cup {op.word}
                  ELSE removed \ (st.dawg.isEnd \ dawg.isEnd)
    /\ UNCHANGED <<affixData, compiledCompoundRules, cache, suggested, run>>

Apply(st, op) == ApplyWithin(st, op, MaxOps)

\* new NSpell(aff, dic): parseAffix, compileCompoundRules, loadDictionary
Construct(aff, dic) ==
    LET st == loadDictionary(aff, [dawg |-> EmptyDawg, crc |-> aff.compoundRuleCodes], dic)
    IN  /\ affixData = aff
        /\ dawg = st.dawg
        /\ compoundRuleCodes = st.crc
        /\ compiledCompoundRules = compileCompoundRules(aff.compoundRules, aff.compoundRuleCodes)
        /\ lastOp = NoOp
        /\ removed = {}
        /\ nOps = 0
        /\ suggested = <<>>
        /\ run = IdleRun
        /\ cache = NoCache

\* new NSpell(aff): no dictionary
Init == \E aff \in Affs : Construct(aff, <<>>)

Add ==
    \E w \in Words \cup {<<>>}, m \in Models :
        Apply(add(affixData, St, w, m), [op |-> "add", word |-> w, arg |-> m])

Remove ==
    \E w \in Words \cup {<<>>, W_a} :
        Apply(remove(affixData, St, w), [op |-> "remove", word |-> w, arg |-> <<>>])

Dictionary ==
    \E l \in DicLines :
        Apply(dictionary(affixData, St, DicLine(l[1], l[2])), [op |-> "dictionary", word |-> l[1], arg |-> l[2]])

Personal ==
    \E w \in Words :
        \/ Apply(personal(affixData, St, <<"*">> \o w), [op |-> "forbid", word |-> w, arg |-> <<>>])
        \/ /\ w = W_As
           /\ Apply(personal(affixData, St, w \o <<"/">> \o W_as), [op |-> "personal", word |-> w, arg |-> W_as])

Next == Add \/ Remove \/ Dictionary \/ Personal

Spec == Init /\ [][Next]_vars

-----------------------------------------------------------------------------
(* The word graph alone: add and remove from the empty graph *)

DawgWords == {<<>>, W_a, W_as, W_ass, <<"s">>}

\* the flags add is called with; <<>> is the absent argument
DawgFlagArgs == {<<>>, <<"B">>, <<"F", "K">>}

InitDawg == Construct(AffPlain, <<>>)

DawgAddCall ==
    \E w \in DawgWords, f \in DawgFlagArgs :
        /\ dawg' = DawgAdd(dawg, w, f)
        /\ lastOp' = [op |-> "dawg.add", word |-> w, arg |-> f]
        /\ UNCHANGED <<affixData, compoundRuleCodes, compiledCompoundRules, cache, removed, nOps,
                       suggested, run>>

DawgRemoveCall ==
    \E w \in DawgWords :
        /\ dawg' = DawgRemove(dawg, w)
        /\ lastOp' = [op |-> "dawg.remove", word |-> w, arg |-> <<>>]
        /\ UNCHANGED <<affixData, compoundRuleCodes, compiledCompoundRules, cache, removed, nOps,
                       suggested, run>>

\* DAWG.deserialize(dawg.serialize()) replaces the graph
RoundTrip ==
    /\ dawg' = deserialize(serialize(dawg))
    /\ lastOp' = [op |-> "dawg.roundtrip", word |-> <<>>, arg |-> <<>>]
    /\ UNCHANGED <<affixData, compoundRuleCodes, compiledCompoundRules, cache, removed, nOps,
                   suggested, run>>

NextDawg == DawgAddCall \/ DawgRemoveCall \/ RoundTrip

SpecDawg == InitDawg /\ [][NextDawg]_vars

-----------------------------------------------------------------------------
(* suggest as one call, on loaded dictionaries *)

MaxSuggestOps == 2

SuggestAffs == {AffPlain, AffFlags, AffConv}

\* the .dic files the checker is constructed with
DicNone == <<>>
DicOne == joinLines(<< <<"1">>, W_as >>)
DicCased == joinLines(<< W_as, W_As, <<"s">> >>)
DicFlagged == joinLines(<< <<"3">>, W_as \o <<"/", "N">>, W_sa \o <<"/", "K">>, W_ass >>)
DicMany ==
    joinLines(<< <<"1", "2">>, <<"a">>, <<"s">>, W_sa, <<"a", "a">>, <<"s", "s">>,
                 <<"a", "a", "s">>, <<"s", "a", "s">>, W_ass, <<"a", "s", "a">>,
                 <<"a", "a", "s", "s">>, <<"a", "a", "a">>, <<"s", "s", "a">> >>)

SuggestDics == {DicNone, DicOne, DicCased, DicFlagged, DicMany}

\* the tokens suggest is called with
Tokens == {W_as, W_sa, W_AS, <<"s", "s">>, <<"a", "s", "a", "s">>, <<" ", "a">>, <<>>}

InitSuggest == \E aff \in SuggestAffs, dic \in SuggestDics : Construct(aff, dic)

SuggestAdd ==
    \E w \in {W_sa, W_sS} :
        ApplyWithin(add(affixData, St, w, <<>>), [op |-> "add", word |-> w, arg |-> <<>>],
                    MaxSuggestOps)

SuggestForbid ==
    \E w \in {W_as} :
        ApplyWithin(personal(affixData, St, <<"*">> \o w),
                    [op |-> "forbid", word |-> w, arg |-> <<>>], MaxSuggestOps)

Suggest ==
    /\ nOps < MaxSuggestOps
    /\ \E x \in Tokens :
        \E r \in suggest(affixData, compiledCompoundRules, dawg, x) :
            /\ suggested' = r
            /\ lastOp' = [op |-> "suggest", word |-> x, arg |-> <<>>]
    /\ nOps' = nOps + 1
    /\ UNCHANGED <<dawg, affixData, compoundRuleCodes, compiledCompoundRules, cache, removed, run>>

NextSuggest == SuggestAdd \/ SuggestForbid \/ Suggest

SpecSuggest == InitSuggest /\ [][NextSuggest]_vars

-----------------------------------------------------------------------------
(* suggest step by step: its loops, one round at a time *)

W_8 == <<"a", "s", "a", "s", "a", "s", "s", "a">>
W_11 == <<"s", "a", "s", "a", "s", "a", "s", "a", "s", "a", "s">>
W_16 == W_8 \o W_8

\* two words: W_11 without its first character, and without its first and
\* its last
DicLong == joinLines(<< <<"2">>, Tail(W_11), SubSeq(W_11, 2, 10) >>)

RunDics == {DicNone, DicOne, DicMany, DicLong}

\* the tokens suggest is called with: 2, 8, 11 and 16 characters
RunTokens == {W_as, <<"s", "s">>, W_8, W_11, W_16}

InitRun == \E dic \in RunDics : Construct(AffPlain, dic)

RunFrame == UNCHANGED <<dawg, affixData, compoundRuleCodes, compiledCompoundRules, cache, removed, nOps>>

\* suggest.ts 135-140 and 214-217
Begin ==
    /\ run.phase = "idle"
    /\ \E x \in RunTokens :
        LET normalized == normalize(trim(x), affixData.conversion.in)
        IN  /\ lastOp' = [op |-> "suggest", word |-> x, arg |-> <<>>]
            /\ IF normalized = <<>>
                  \/ correct(affixData, compiledCompoundRules, dawg, normalized)
               THEN /\ run' = [IdleRun EXCEPT !.phase = "done", !.normalized = normalized]
                    /\ suggested' = <<>>
               ELSE /\ run' = [IdleRun EXCEPT !.phase = "double", !.normalized = normalized,
                                              !.values = << <<>> >>, !.max = 1]
                    /\ UNCHANGED suggested
    /\ RunFrame

\* suggest.ts 219-236: one round of the loop of strategy 5
DoubleChar ==
    /\ run.phase = "double"
    /\ run.position < Len(run.normalized)
    /\ LET st == doubleStep(run.normalized,
                            [values |-> run.values, max |-> run.max, distance |-> run.distance],
                            run.position)
       IN  run' = [run EXCEPT !.values = st.values, !.max = st.max, !.distance = st.distance,
                              !.position = @ + 1,
                              !.growth = Len(st.values) - Len(run.values)]
    /\ UNCHANGED <<lastOp, suggested>>
    /\ RunFrame

\* suggest.ts 237-396: the other strategies, the validation, the
\* edit-distance-1 stage and the set-up of the edit-distance-2 loop
EditDistance1 ==
    /\ run.phase = "double"
    /\ run.position >= Len(run.normalized)
    /\ LET mem == editDistance1Stage(affixData, dawg, run.normalized, run.values)
       IN  run' = IF Len(mem.validCandidates) < MIN_GOOD_SUGGESTIONS
                  THEN [run EXCEPT !.phase = "ed2", !.mem = mem, !.previous = 0,
                                   !.maxIterations = maxIterationsOf(run.normalized, mem.editDistance1),
                                   !.batchSize = batchSizeOf(run.normalized)]
                  ELSE [run EXCEPT !.phase = "rank", !.mem = mem]
    /\ UNCHANGED <<lastOp, suggested>>
    /\ RunFrame

Ed2Continues ==
    /\ Len(run.mem.validCandidates) < TARGET_SUGGESTIONS
    /\ run.previous < run.maxIterations

\* a variant of the round without the break of line 410
Ed2RoundNoBreak ==
    /\ run.phase = "ed2"
    /\ Ed2Continues
    /\ LET mem == ed2Round(affixData, dawg, run.mem, run.previous, run.batchSize)
           batch == slice(run.mem.editDistance1, run.previous, run.previous + run.batchSize)
       IN  run' = [run EXCEPT !.mem = mem, !.previous = @ + run.batchSize,
                              !.expanded = @ + Len(batch)]
    /\ UNCHANGED <<lastOp, suggested>>
    /\ RunFrame

\* suggest.ts 398-411: one round of the while loop; expanded counts the
\* distance-1 candidates the rounds have taken
Ed2Round ==
    /\ run.phase = "ed2"
    /\ Ed2Continues
    /\ LET mem == ed2Round(affixData, dawg, run.mem, run.previous, run.batchSize)
           batch == slice(run.mem.editDistance1, run.previous, run.previous + run.batchSize)
       IN  run' = [run EXCEPT !.mem = mem, !.previous = @ + run.batchSize,
                              !.expanded = @ + Len(batch),
                              !.phase = IF Len(mem.validCandidates) >= MIN_GOOD_SUGGESTIONS
                                        THEN "rank" ELSE "ed2"]
    /\ UNCHANGED <<lastOp, suggested>>
    /\ RunFrame

\* suggest.ts 398: the loop condition fails
Ed2Exit ==
    /\ run.phase = "ed2"
    /\ ~Ed2Continues
    /\ run' = [run EXCEPT !.phase = "rank"]
    /\ UNCHANGED <<lastOp, suggested>>
    /\ RunFrame

\* suggest.ts 414-471
Rank ==
    /\ run.phase = "rank"
    /\ \E o \in sortOrders(run.mem.validCandidates) :
          suggested' = outputLoop(affixData, o, 1, <<>>)
    /\ run' = [run EXCEPT !.phase = "done"]
    /\ UNCHANGED lastOp
    /\ RunFrame

\* the call has returned
Return ==
    /\ run.phase = "done"
    /\ run' = IdleRun
    /\ UNCHANGED <<lastOp, suggested>>
    /\ RunFrame

NextRun == Begin \/ DoubleChar \/ EditDistance1 \/ Ed2Round \/ Ed2Exit \/ Rank \/ Return

SpecRun == InitRun /\ [][NextRun]_vars

-----------------------------------------------------------------------------
(* One root loaded into an empty checker, then add with a model word *)

LoadAffs == {AffRules, AffFlags, AffConv}

LoadWords == {W_a, W_as, W_sa, <<"s">>}

\* the models add is called with; <<>> is the absent model
LoadModels == LoadWords \cup {<<>>}

LoadCodes == {"B", "P", "C", "Q", "X", "F"}

\* the flag strings of the loaded line: at most two codes, and two of three
LoadFlagStrings ==
    {<<>>} \cup {<<c>> : c \in LoadCodes} \cup {<<c, e>> : c, e \in LoadCodes}
           \cup {<<"X", "B", "P">>, <<"B", "P", "C">>}

InitLoad == \E aff \in LoadAffs : Construct(aff, <<>>)

\* dictionary("word/codes") on the checker that has no word yet
LoadRoot ==
    /\ nOps = 0
    /\ \E w \in LoadWords, fs \in LoadFlagStrings :
          Apply(dictionary(affixData, St, DicLine(w, fs)),
                [op |-> "load", word |-> w, arg |-> fs])

\* add(w, m)
AddModel ==
    \E w \in LoadWords, m \in LoadModels :
        ApplyWithin(add(affixData, St, w, m), [op |-> "add", word |-> w, arg |-> m],
                    MaxLoadOps)

NextLoad == LoadRoot \/ AddModel

SpecLoad == InitLoad /\ [][NextLoad]_vars

-----------------------------------------------------------------------------
(* A checker constructed with compound rules and a dictionary *)

\* the lines of the .dic file: roots with and without the flag of the rule BB
CompoundLines == {DicLine(w, f) : w \in {W_a, <<"s">>, W_as}, f \in {<<>>, <<"B">>}}

\* .dic files of one and of two lines
CompoundDics ==
    {l : l \in CompoundLines} \cup {joinLines(<<l, k>>) : l, k \in CompoundLines}

CompoundTokens ==
    {W_a, W_as, W_sa, <<"a", "a">>, <<"s", "s">>, <<"a", "s", "a">>, <<"a", "s", "a", "s">>}

\* new NSpell(aff, dic)
InitCompound == \E dic \in CompoundDics : Construct(AffCompound, dic)

\* correct(token): the answer is recorded
CorrectCall ==
    \E t \in CompoundTokens :
        /\ lastOp' = [op |-> "correct", word |-> t,
                      arg |-> <<correct(affixData, compiledCompoundRules, dawg, t)>>]
        /\ UNCHANGED <<dawg, affixData, compoundRuleCodes, compiledCompoundRules, cache, removed,
                       nOps, suggested, run>>

NextCompound == CorrectCall

SpecCompound == InitCompound /\ [][NextCompound]_vars

-----------------------------------------------------------------------------
(* suggest on checkers that differ in their replacement table alone *)

RankAffs == {AffRepAs, AffRepSa}

DicPair == joinLines(<< <<"2">>, W_as, W_sa >>)

RankDics == {DicPair, DicCased, DicMany}

InitRank == \E aff \in RankAffs, dic \in RankDics : Construct(aff, dic)

NextRank == Suggest

SpecRank == InitRank /\ [][NextRank]_vars

-----------------------------------------------------------------------------
(* parseAffix on .aff texts whose counted blocks may be malformed *)

\* the lines of the blocks: header parts before the count, entry lines
BlockHead(d) ==
    IF d \in {"PFX", "SFX"} THEN <<d, <<"B">>, <<"Y">> >> ELSE <<d>>

BlockEntries(d) ==
    IF d = "REP" THEN << <<d, <<"s">>, <<"a">> >>, <<d, <<"a">>, <<"s">> >> >>
    ELSE IF d \in {"ICONV", "OCONV"} THEN << <<d, <<"s">>, <<"S">> >>, <<d, <<"a">>, <<"s">> >> >>
    ELSE IF d = "COMPOUNDRULE" THEN << <<d, <<"B", "B">> >>, <<d, <<"(", "a", "s", ")">> >> >>
    ELSE IF d = "SFX" THEN << <<d, <<"B">>, <<"0">>, <<"s">>, <<"[", "^", "s", "]">> >>,
                              <<d, <<"B">>, <<"s">>, <<"a", "/", "B">>, <<"s">> >> >>
    ELSE << <<d, <<"B">>, <<"0">>, <<"a">>, <<".">> >>,
            <<d, <<"B">>, <<"a">>, <<"s">>, <<"a">> >> >>

\* what the header gives as count: nothing, a word, or a number
CountParts == {<<>>, <<"x">>, <<"0">>, <<"1">>, <<"2">>, <<"3">>}

\* a counted block: its header and its first n entry lines
Block(d, countPart, n) ==
    <<BlockHead(d) \o (IF countPart = <<>> THEN <<>> ELSE <<countPart>>)>>
        \o SubSeq(BlockEntries(d), 1, n)

\* the well-formed directives that follow the block
Tails ==
    { << <<"KEEPCASE", <<"K">> >> >>,
      << <<"#">>, <<"KEEPCASE", <<"K">> >>, <<"FORBIDWARN">> >>,
      << <<"KEEPCASE", <<"K">> >>, <<"REP", <<"1">> >>, <<"REP", <<"s", "s">>, <<"s">> >>,
         <<"TRY", <<"s", "A">> >> >> }

AffTexts ==
    {Block(d, c, n) \o t : d \in CountedDirectives, c \in CountParts, n \in 1..2, t \in Tails}

InitAffix ==
    /\ affixData = parseAffix(<<>>)
    /\ dawg = EmptyDawg
    /\ compoundRuleCodes = << >>
    /\ compiledCompoundRules = <<>>
    /\ lastOp = NoOp
    /\ removed = {}
    /\ nOps = 0
    /\ suggested = <<>>
    /\ run = IdleRun
    /\ cache = NoCache

\* parseAffix(text); lastOp.arg holds the lines of the text
ParseAffix ==
    \E text \in AffTexts :
        /\ affixData' = parseAffix(text)
        /\ lastOp' = [op |-> "parseAffix", word |-> <<>>, arg |-> text]
        /\ UNCHANGED <<dawg, compoundRuleCodes, compiledCompoundRules, cache, removed, nOps,
                       suggested, run>>

NextAffix == ParseAffix

SpecAffix == InitAffix /\ [][NextAffix]_vars

-----------------------------------------------------------------------------
(* correct and spell on loaded dictionaries *)

\* FORBIDDENWORD F, KEEPCASE K, ONLYINCOMPOUND O, WARN W, COMPOUNDMIN 1,
\* COMPOUNDRULE 1 / COMPOUNDRULE (as): WARN without FORBIDWARN
AffQuery ==
    [flags |-> [DefaultFlags EXCEPT !.FORBIDDENWORD = "F", !.KEEPCASE = "K",
                                    !.ONLYINCOMPOUND = "O", !.WARN = "W",
                                    !.COMPOUNDMIN = 1],
     rules |-> << >>, replacementTable |-> <<>>,
     conversion |-> [in |-> <<>>, out |-> <<>>],
     compoundRules |-> << <<"(", "a", "s", ")">> >>,
     compoundRuleCodes |-> [c \in {"a", "s", "O"} |-> <<>>]]

QueryAffs == {AffFlags, AffQuery, AffConv, AffCompound}

W_Ass == <<"A", "s", "s">>
W_ASs == <<"A", "S", "s">>

\* the lines of the .dic file: a word in one of its casings, with one flag
\* or none
QueryLines ==
    {DicLine(w, f) : w \in {W_as, W_As, W_AS, W_sS, W_Ass},
                     f \in {<<>>, <<"W">>, <<"F">>, <<"K">>, <<"O">>}}

\* .dic files of one and of two lines
QueryDics == {l : l \in QueryLines} \cup {joinLines(<<l, k>>) : l, k \in QueryLines}

QueryTokens == {W_as, W_As, W_AS, W_aS, W_sS, W_ASs, <<" ", "a", "s">>, W_a, <<"A">>, <<>>}

InitQuery == \E aff \in QueryAffs, dic \in QueryDics : Construct(aff, dic)

QueryFrame ==
    UNCHANGED <<dawg, affixData, compoundRuleCodes, compiledCompoundRules, cache, removed, nOps,
                suggested, run>>

\* personal("*w"), once
ForbidCall ==
    \E w \in {W_as, W_As} :
        ApplyWithin(personal(affixData, St, <<"*">> \o w),
                    [op |-> "forbid", word |-> w, arg |-> <<>>], 1)

\* spell(token): the result is recorded as <<correct, forbidden, warn>>
SpellCall ==
    \E t \in QueryTokens :
        LET r == spell(affixData, compiledCompoundRules, dawg, t)
        IN  /\ lastOp' = [op |-> "spell", word |-> t, arg |-> <<r.correct, r.forbidden, r.warn>>]
            /\ QueryFrame

\* correct(token): the answer is recorded
QueryCorrect ==
    \E t \in QueryTokens :
        /\ lastOp' = [op |-> "correct", word |-> t,
                      arg |-> <<correct(affixData, compiledCompoundRules, dawg, t)>>]
        /\ QueryFrame

NextQuery == ForbidCall \/ SpellCall \/ QueryCorrect

SpecQuery == InitQuery /\ [][NextQuery]_vars

-----------------------------------------------------------------------------
(* apply step by step: its loops and its recursive calls *)

\* SFX T Y 2 / SFX T a s/UZ . / SFX T 0 a . : its first entry removes, and
\* is continued by U and by Z, which names no rule
RuleT == [type |-> "SFX", combineable |-> TRUE,
          entries |-> << [add |-> <<"s">>, remove |-> <<"a">>,
                          match |-> NoMatch, continuation |-> <<"U", "Z">>],
                         [add |-> <<"a">>, remove |-> <<>>,
                          match |-> NoMatch, continuation |-> <<>>] >>]

\* PFX U Y 2 / PFX U s a/V . / PFX U 0 s a
RuleU == [type |-> "PFX", combineable |-> TRUE,
          entries |-> << [add |-> <<"a">>, remove |-> <<"s">>,
                          match |-> NoMatch, continuation |-> <<"V">>],
                         [add |-> <<"s">>, remove |-> <<>>,
                          match |-> [neg |-> FALSE, chars |-> {"a"}], continuation |-> <<>>] >>]

\* SFX V Y 1 / SFX V 0 s/V [^s]: continued by itself, on a form it no longer matches
RuleV == [type |-> "SFX", combineable |-> TRUE,
          entries |-> << [add |-> <<"s">>, remove |-> <<>>,
                          match |-> [neg |-> TRUE, chars |-> {"s"}], continuation |-> <<"V">>] >>]

\* SFX D Y 1 / SFX D 0 a/D . : continued by itself, on every form
RuleD == [type |-> "SFX", combineable |-> TRUE,
          entries |-> << [add |-> <<"a">>, remove |-> <<>>,
                          match |-> NoMatch, continuation |-> <<"D">>] >>]

\* SFX M Y 1 / SFX M 0 s/N . and PFX N Y 1 / PFX N 0 a/M . : continued by
\* each other
RuleM == [type |-> "SFX", combineable |-> TRUE,
          entries |-> << [add |-> <<"s">>, remove |-> <<>>,
                          match |-> NoMatch, continuation |-> <<"N">>] >>]

RuleN == [type |-> "PFX", combineable |-> TRUE,
          entries |-> << [add |-> <<"a">>, remove |-> <<>>,
                          match |-> NoMatch, continuation |-> <<"M">>] >>]

\* SFX T, PFX U, SFX V: every expansion ends
AffChain ==
    [AffPlain EXCEPT !.rules = [c \in {"T", "U", "V"} |->
                                  IF c = "T" THEN RuleT ELSE IF c = "U" THEN RuleU ELSE RuleV]]

\* SFX D, SFX M, PFX N, SFX V: continuations that re-enter a rule being applied
AffCyclic ==
    [AffPlain EXCEPT !.rules = [c \in {"D", "M", "N", "V"} |->
                                  IF c = "D" THEN RuleD ELSE IF c = "M" THEN RuleM
                                  ELSE IF c = "N" THEN RuleN ELSE RuleV]]

ExpandAffs == {AffRules, AffChain, AffCyclic}

ExpandValues == {W_a, <<"s">>, W_as, W_sa, <<>>}

InitExpand == \E aff \in ExpandAffs : Construct(aff, <<>>)

\* a call of apply: the rule by its code, the entry i of its loop, the form
\* next of that entry and the continuation j of the inner loop; j = 0 before
\* the entry is tried
Frame(value, code) == [value |-> value, code |-> code, i |-> 1, next |-> <<>>, j |-> 0]

Top == run.stack[Len(run.stack)]

TopRule == affixData.rules[Top.code]

ReplaceTop(frame) == [run.stack EXCEPT ![Len(run.stack)] = frame]

ExpandFrame ==
    UNCHANGED <<dawg, affixData, compoundRuleCodes, compiledCompoundRules, cache, removed, nOps,
                suggested>>

\* apply(value, rule, rules, []) is called, as addWord calls it (index.ts 211)
ExpandBegin ==
    /\ run.phase = "idle"
    /\ \E value \in ExpandValues, code \in DOMAIN affixData.rules :
          /\ run' = [phase |-> "apply", stack |-> <<Frame(value, code)>>, words |-> <<>>]
          /\ lastOp' = [op |-> "apply", word |-> value, arg |-> <<code>>]
    /\ ExpandFrame

\* apply.ts 137-180: entry i is tried; it is skipped, or its form is pushed
ExpandEntry ==
    /\ run.phase = "apply"
    /\ Top.j = 0 /\ Top.i <= Len(TopRule.entries)
    /\ LET entry == TopRule.entries[Top.i]
           value == Top.value
           isSuffix == TopRule.type = "SFX"
           skipMatch == entry.match # NoMatch /\ ~matchTest(entry.match, value, isSuffix)
           skipRemove == /\ entry.remove # <<>>
                         /\ IF isSuffix THEN ~endsWith(value, entry.remove)
                                        ELSE ~startsWith(value, entry.remove)
           next == IF isSuffix
                   THEN SubSeq(value, 1, Len(value) - Len(entry.remove)) \o entry.add
                   ELSE entry.add \o sliceFrom(value, Len(entry.remove))
       IN  IF skipMatch \/ skipRemove
           THEN run' = [run EXCEPT !.stack = ReplaceTop([Top EXCEPT !.i = @ + 1])]
           ELSE run' = [run EXCEPT !.stack = ReplaceTop([Top EXCEPT !.next = next, !.j = 1]),
                                   !.words = Append(@, next)]
    /\ UNCHANGED lastOp
    /\ ExpandFrame

\* apply.ts 183-192: continuation j of the entry; a flag that names a rule
\* is a recursive call, and the loop of the caller goes on after it
ExpandContinuation ==
    /\ run.phase = "apply"
    /\ Top.j >= 1
    /\ LET continuation == TopRule.entries[Top.i].continuation
       IN  IF Top.j > Len(continuation)
           THEN run' = [run EXCEPT !.stack = ReplaceTop([Top EXCEPT !.i = @ + 1, !.j = 0])]
           ELSE IF continuation[Top.j] \notin DOMAIN affixData.rules
           THEN run' = [run EXCEPT !.stack = ReplaceTop([Top EXCEPT !.j = @ + 1])]
           ELSE /\ Len(run.stack) < MaxStack
                /\ run' = [run EXCEPT !.stack = Append(ReplaceTop([Top EXCEPT !.j = @ + 1]),
                                                       Frame(Top.next, continuation[Top.j]))]
    /\ UNCHANGED lastOp
    /\ ExpandFrame

\* the recursive call of line 189 on a full call stack: RangeError, which
\* nothing between apply and the caller of the checker catches
ExpandOverflow ==
    /\ run.phase = "apply"
    /\ Top.j >= 1
    /\ LET continuation == TopRule.entries[Top.i].continuation
       IN  /\ Top.j <= Len(continuation)
           /\ continuation[Top.j] \in DOMAIN affixData.rules
    /\ Len(run.stack) = MaxStack
    /\ run' = [run EXCEPT !.phase = "thrown", !.stack = <<>>]
    /\ UNCHANGED lastOp
    /\ ExpandFrame

\* apply.ts 195: the loop over the entries is over and the call returns
ExpandReturn ==
    /\ run.phase = "apply"
    /\ Top.j = 0 /\ Top.i > Len(TopRule.entries)
    /\ run' = [run EXCEPT !.stack = SubSeq(@, 1, Len(@) - 1),
                          !.phase = IF Len(run.stack) = 1 THEN "returned" ELSE "apply"]
    /\ UNCHANGED lastOp
    /\ ExpandFrame

NextExpand == ExpandBegin \/ ExpandEntry \/ ExpandContinuation \/ ExpandOverflow \/ ExpandReturn

SpecExpand == InitExpand /\ [][NextExpand]_vars

-----------------------------------------------------------------------------
(* An LRUCache under get and set *)

CacheKeys == {"a", "s", "k"}

CacheValues == {"v", "w", Undefined}

CacheSizes == {1, 2}

\* new LRUCache(maxSize), beside a checker that is not used
InitCache ==
    /\ \E maxSize \in CacheSizes : cache = [entries |-> <<>>, maxSize |-> maxSize, history |-> <<>>]
    /\ affixData = AffPlain
    /\ dawg = EmptyDawg
    /\ compoundRuleCodes = << >>
    /\ compiledCompoundRules = <<>>
    /\ lastOp = NoOp
    /\ removed = {}
    /\ nOps = 0
    /\ suggested = <<>>
    /\ run = IdleRun

CacheFrame ==
    UNCHANGED <<dawg, affixData, compoundRuleCodes, compiledCompoundRules, removed, suggested, run>>

\* a call, as the history keeps it: the key and the value given or returned
Call(op, key, value) == [op |-> op, key |-> key, value |-> value]

CacheGet ==
    /\ nOps < MaxCacheOps
    /\ \E key \in CacheKeys :
        LET r == LRUGet(cache, key)
        IN  /\ cache' = [r.cache EXCEPT !.history = Append(@, Call("get", key, r.value))]
            /\ lastOp' = [op |-> "get", word |-> <<key>>, arg |-> <<r.value>>]
    /\ nOps' = nOps + 1
    /\ CacheFrame

CacheSet ==
    /\ nOps < MaxCacheOps
    /\ \E key \in CacheKeys, value \in CacheValues :
        /\ cache' = [LRUSet(cache, key, value) EXCEPT !.history = Append(@, Call("set", key, value))]
        /\ lastOp' = [op |-> "set", word |-> <<key>>, arg |-> <<value>>]
    /\ nOps' = nOps + 1
    /\ CacheFrame

NextCache == CacheGet \/ CacheSet

SpecCache == InitCache /\ [][NextCache]_vars

-----------------------------------------------------------------------------
(* The loader on .dic texts with blank lines, counts and escaped slashes *)

\* a\/s, a word with an escaped slash, and a/s
W_esc == <<"a", "\\", "/", "s">>
W_slash == <<"a", "/", "s">>

\* the lines of the texts: a blank line, a number, a word, the word with the
\* escaped slash alone and with a flag string
DicTextLines == {<<>>, <<"2">>, W_as, W_esc, W_esc \o <<"/", "B">>}

\* texts of one, two and three lines
DicTexts ==
    {joinLines(<<l>>) : l \in DicTextLines}
        \cup {joinLines(<<l, k>>) : l, k \in DicTextLines}
        \cup {joinLines(<<l, k, m>>) : l, k, m \in DicTextLines}

DicAffs == {AffPlain, AffFlags}

\* new NSpell({aff, dic}); lastOp.arg holds the .dic text
InitDic ==
    \E aff \in DicAffs, dic \in DicTexts :
        LET st == loadDictionary(aff, [dawg |-> EmptyDawg, crc |-> aff.compoundRuleCodes], dic)
        IN  /\ affixData = aff
            /\ dawg = st.dawg
            /\ compoundRuleCodes = st.crc
            /\ compiledCompoundRules = compileCompoundRules(aff.compoundRules, aff.compoundRuleCodes)
            /\ lastOp = [op |-> "new", word |-> <<>>, arg |-> dic]
            /\ removed = {}
            /\ nOps = 0
            /\ suggested = <<>>
            /\ run = IdleRun
            /\ cache = NoCache

\* dictionary(text), once
DictionaryText ==
    \E text \in DicTexts :
        ApplyWithin(dictionary(affixData, St, text),
                    [op |-> "dictionary", word |-> <<>>, arg |-> text], 1)

NextDic == DictionaryText

SpecDic == InitDic /\ [][NextDic]_vars

-----------------------------------------------------------------------------
(* loadAsync: src/unnamed/part_002 49-83 *)

ChunkSizes == {1, 2, 3}

\* the checker of line 66, new NSpell({aff}), before loadAsync is called
InitAsync == \E aff \in DicAffs : Construct(aff, <<>>)

AsyncFrame == UNCHANGED <<affixData, compiledCompoundRules, cache, removed, nOps, suggested>>

\* lines 53-66: the lines of the .dic text; without a .dic text the checker
\* is returned at once
LoadAsyncBegin ==
    /\ run.phase = "idle"
    /\ \E dic \in DicTexts \cup {<<>>}, chunkSize \in ChunkSizes :
          /\ lastOp' = [op |-> "loadAsync", word |-> <<>>, arg |-> dic]
          /\ run' = IF dic = <<>>
                    THEN [phase |-> "resolved", lines |-> <<>>, i |-> 0, chunkSize |-> chunkSize]
                    ELSE [phase |-> "loading", lines |-> splitLines(dic), i |-> 0,
                          chunkSize |-> chunkSize]
    /\ UNCHANGED <<dawg, compoundRuleCodes>>
    /\ AsyncFrame

\* lines 69-80: one round of the loop, up to the await
LoadChunk ==
    /\ run.phase = "loading"
    /\ run.i < Len(run.lines)
    /\ LET chunk == joinLines(SubSeq(run.lines, run.i + 1,
                                     Min(run.i + run.chunkSize, Len(run.lines))))
           st == dictionary(affixData, St, chunk)
       IN  /\ dawg' = st.dawg
           /\ compoundRuleCodes' = st.crc
    /\ run' = [run EXCEPT !.i = @ + run.chunkSize]
    /\ UNCHANGED lastOp
    /\ AsyncFrame

\* line 82: the promise resolves to the checker
LoadAsyncResolve ==
    /\ run.phase = "loading"
    /\ run.i >= Len(run.lines)
    /\ run' = [run EXCEPT !.phase = "resolved"]
    /\ UNCHANGED <<dawg, compoundRuleCodes, lastOp>>
    /\ AsyncFrame

NextAsync == LoadAsyncBegin \/ LoadChunk \/ LoadAsyncResolve

SpecAsync == InitAsync /\ [][NextAsync]_vars

-----------------------------------------------------------------------------
(* Properties *)

Correct(w) == correct(affixData, compiledCompoundRules, dawg, w)

\* w is what a lookup of w reads: trimming and the input conversion leave it
Plain(w) == normalize(trim(w), affixData.conversion.in) = w

capitalized(w) == toUpperCase(charAt(w, 0)) \o toLowerCase(sliceFrom(w, 1))

\* C1: from the empty word graph, after any sequence of add(w, flags?) and
\* remove(w), size and getStats().words are the number of distinct words w
\* for which has(w) is true.
C1_SizeCountsTerminals ==
    /\ dawg.size = Cardinality({w \in dawg.nodes \cup DawgWords : has(dawg, w)})
    /\ getStats(dawg).words = dawg.size

\* C1 witness: a remove of a stored word has left two words stored, one of
\* them a prefix of a node that is no longer terminal.
C1_Witness ==
    /\ lastOp.op = "dawg.remove"
    /\ ~has(dawg, W_ass) /\ W_ass \in dawg.nodes
    /\ has(dawg, W_a) /\ has(dawg, W_as)
    /\ dawg.size = 2

\* C2 as stated: after add(w) with a non-empty w and no model, correct(w)
\* is true; read for the words the input conversion leaves unchanged.
C2_AddMakesCorrect ==
    (lastOp.op = "add" /\ lastOp.word # <<>> /\ lastOp.arg = <<>> /\ Plain(lastOp.word))
        => Correct(lastOp.word)

\* C2 amended: add(w) with a non-empty w and no model makes correct(w) true
\* when w is what the lookup reads and w did not carry, before the call,
\* FORBIDDENWORD, the personal forbidden marker or ONLYINCOMPOUND.
C2_AddMakesCorrectUnlessFlagged ==
    [][(/\ lastOp'.op = "add" /\ lastOp'.word # <<>> /\ lastOp'.arg = <<>>
        /\ Plain(lastOp'.word)
        /\ isValidWord(affixData, getFlags(dawg, lastOp'.word)))
       => correct(affixData, compiledCompoundRules, dawg', lastOp'.word)]_vars

\* C2 witness: add(w) on a word that was removed before is correct again.
C2_Witness ==
    /\ lastOp.op = "add" /\ lastOp.arg = <<>> /\ lastOp.word = W_aS
    /\ nOps = 3
    /\ has(dawg, W_aS)
    /\ Correct(W_aS)
    /\ ~Correct(W_AS)

\* C3 as stated: after remove(w), correct(w) is false until w is added
\* again; read for the words the input conversion leaves unchanged, in a
\* checker without compound rules.
C3_RemovedIsIncorrect ==
    compiledCompoundRules = <<>> => \A w \in removed : Plain(w) => ~Correct(w)

\* C3 amended: after remove(w), and until a call stores w again (as a root
\* or as a form derived from another root), w is not stored, and correct(w),
\* for w that is what the lookup reads, is true only through the case
\* fallbacks (the lower-case form, or the sentence-case form of an
\* all-upper w, stored valid without KEEPCASE) or a compound pattern.
C3_RemovedIsNotStored ==
    \A w \in removed :
        /\ ~has(dawg, w)
        /\ (Plain(w) /\ Correct(w)) =>
              \/ (toLowerCase(w) # w /\ acceptsVariant(affixData, dawg, toLowerCase(w)))
              \/ (/\ w = toUpperCase(w) /\ Len(w) > 1
                  /\ acceptsVariant(affixData, dawg, sentenceCase(w)))
              \/ checkCompound(affixData, compiledCompoundRules, w)

\* C3 witness: the root "a" was removed, another call followed, and "a" is
\* still incorrect while its derived form "as" is stored.
C3_Witness ==
    /\ W_a \in removed
    /\ lastOp.op \in {"add", "dictionary"}
    /\ has(dawg, W_as)
    /\ ~Correct(W_a)

\* C4: remove(w) changes only the terminal mark and the flags of w; has and
\* getFlags of every other word are as before, no node is deleted, and
\* when w is not stored nothing changes.
C4_RemoveFrame ==
    [][lastOp'.op = "remove" =>
        LET w == lastOp'.word IN
        /\ dawg.nodes \subseteq dawg'.nodes
        /\ \A u \in (dawg.nodes \cup dawg'.nodes \cup Words) \ {w} :
              /\ has(dawg', u) = has(dawg, u)
              /\ getFlags(dawg', u) = getFlags(dawg, u)
        /\ ~has(dawg', w)
        /\ dawg'.size = dawg.size - (IF has(dawg, w) THEN 1 ELSE 0)
        /\ (~has(dawg, w) => dawg' = dawg)
        /\ compoundRuleCodes' = compoundRuleCodes]_vars

\* C4 witness: the root "a" was removed; its node is still there and its
\* derived form "as", which shares the prefix, is still stored.
C4_Witness ==
    /\ lastOp.op = "remove" /\ lastOp.word = W_a
    /\ W_a \in dawg.nodes /\ ~has(dawg, W_a)
    /\ has(dawg, W_as)

\* the strings suggest returned, before the output conversion
SuggestedWords == {suggested[k].word : k \in 1..Len(suggested)}

\* C5 as stated: every string suggest returns is correct; a returned string
\* is taken before the output conversion, and the strings the input
\* conversion would rewrite are left out.
C5_SuggestionsAreCorrect ==
    lastOp.op = "suggest" => \A c \in SuggestedWords : Plain(c) => Correct(c)

\* C6 as stated: when correct(x) is true, suggest(x) returns the empty
\* list.
C6_CorrectHasNoSuggestions ==
    (lastOp.op = "suggest" /\ Correct(lastOp.word)) => suggested = <<>>

\* C7: suggest returns at most 10 entries, no two equal when compared
\* case-insensitively.
C7_AtMostTenDistinct ==
    /\ Len(suggested) <= 10
    /\ \A i, j \in 1..Len(suggested) :
          toLowerCase(suggested[i].output) = toLowerCase(suggested[j].output) => i = j

\* C7 witness: suggest returned 10 entries.
C7_Witness == lastOp.op = "suggest" /\ Len(suggested) = 10

\* C8 as stated, its bounds: a round of the double-character stage adds a
\* bounded number of entries, a round of the edit-distance-2 loop advances
\* by at least one item, and the loop expands no more than
\* min(|d1|, max(15 - len(x), 3)^3) distance-1 candidates in total.
C8_Ed2WithinCeiling ==
    /\ run.growth <= Max(run.max + 1, 4)
    /\ run.phase = "ed2" => run.batchSize >= 1
    /\ run.expanded <= run.maxIterations

\* C9 as stated: for a root w stored with default flags, correct(w),
\* correct(upper(w)) and correct(capitalized(w)) are all true.
C9_AllCasingsCorrect ==
    \A w \in dawg.isEnd :
        getFlags(dawg, w) = <<>> =>
            Correct(w) /\ Correct(toUpperCase(w)) /\ Correct(capitalized(w))

\* the cased form v of a stored word is not itself stored with a flag that
\* makes it invalid, is what the lookup reads, and lower-cases to the
\* lower-case form of the word
Usable(v, w) ==
    /\ Plain(v)
    /\ toLowerCase(v) = toLowerCase(w)
    /\ has(dawg, v) => isValidWord(affixData, getFlags(dawg, v))

\* C9 amended: for a root w stored with default flags that is what the
\* lookup reads, correct(w) is true; correct(upper(w)) is true when w is
\* lower-case, capitalized or upper-case; correct(capitalized(w)) is true
\* when w is lower-case or capitalized; each for a cased form that
\* lower-cases to lower(w), and unless the cased form is itself stored with
\* a flag that makes it invalid.
C9_StoredCasingsCorrect ==
    \A w \in dawg.isEnd :
        (getFlags(dawg, w) = <<>> /\ Plain(w)) =>
            /\ Correct(w)
            /\ (detectCasing(w) \in {"lower", "capitalized", "upper"} /\ Usable(toUpperCase(w), w))
                  => Correct(toUpperCase(w))
            /\ (detectCasing(w) \in {"lower", "capitalized"} /\ Usable(capitalized(w), w))
                  => Correct(capitalized(w))

\* C9 witness: only the lower-case root is stored and its upper-case and
\* capitalized forms are correct.
C9_Witness ==
    /\ dawg.isEnd = {W_as} /\ getFlags(dawg, W_as) = <<>>
    /\ Correct(W_AS) /\ Correct(W_As)

\* C10 as stated: after personal("*W"), spell(W) returns forbidden = true
\* and correct = false, and correct(W) is false; read for the words the
\* input conversion leaves unchanged.
C10_ForbiddenAfterStar ==
    (lastOp.op = "forbid" /\ Plain(lastOp.word)) =>
        LET r == spell(affixData, compiledCompoundRules, dawg, lastOp.word)
        IN  r.forbidden /\ ~r.correct /\ ~Correct(lastOp.word)

\* C10 amended: after personal("*W") with a non-empty W, W is stored and
\* the flags W had are all still on W; when W is what the lookup reads,
\* correct(W) is false; when moreover W does not carry ONLYINCOMPOUND,
\* spell(W) returns forbidden = true and correct = false.
C10_ForbiddenUnlessCompoundOnly ==
    [][lastOp'.op = "forbid" =>
        LET W == lastOp'.word
            r == spell(affixData, compiledCompoundRules, dawg', W)
        IN  /\ has(dawg', W)
            /\ Range(getFlags(dawg, W)) \subseteq Range(getFlags(dawg', W))
            /\ Plain(W) =>
                  /\ ~correct(affixData, compiledCompoundRules, dawg', W)
                  /\ ~hasFlag(getFlags(dawg', W), affixData.flags.ONLYINCOMPOUND)
                        => (r.forbidden /\ ~r.correct)]_vars

\* C10 witness: W carried KEEPCASE, was forbidden, and carries both flags.
C10_Witness ==
    /\ lastOp.op = "forbid" /\ lastOp.word = W_as
    /\ {"K", "F"} \subseteq Range(getFlags(dawg, W_as))
    /\ spell(affixData, compiledCompoundRules, dawg, W_as).forbidden

\* Expand(word, rules[c]): the forms the expander emits, as a set
Expand(aff, word, c) == Range(apply(word, aff.rules[c], aff.rules, <<>>))

\* the words claim C11 lists for the root word/codes
ExpectedTerminals(aff, word, codes) ==
    LET named == {i \in 1..Len(codes) : codes[i] \in DOMAIN aff.rules}
        root == IF aff.flags.NEEDAFFIX # "" /\ aff.flags.NEEDAFFIX \in Range(codes)
                THEN {} ELSE {word}
        opposite(i) == {k \in named \ {i} :
                          /\ aff.rules[codes[k]].combineable
                          /\ aff.rules[codes[k]].type # aff.rules[codes[i]].type}
        combined(i) == IF aff.rules[codes[i]].combineable
                       THEN UNION {Expand(aff, d, codes[k]) :
                                     d \in Expand(aff, word, codes[i]), k \in opposite(i)}
                       ELSE {}
    IN  root \cup UNION {Expand(aff, word, codes[i]) \cup combined(i) : i \in named}

ModelFlags(d, m) == IF m # <<>> THEN getFlags(d, m) ELSE <<>>

\* every word of a set is stored and correct
AllCorrect(aff, compiled, d, ws) == \A x \in ws : has(d, x) /\ correct(aff, compiled, d, x)

C13_CompoundOfRootsAccepted ==
    /\ compiledCompoundRules =
          compileCompoundRules(affixData.compoundRules, compoundRuleCodes)
    /\ \A r1, r2 \in Range(compoundRuleCodes["B"]) :
          Len(r1 \o r2) >= 2 * affixData.flags.COMPOUNDMIN
              => checkCompound(affixData, compiledCompoundRules, r1 \o r2)

\* C14 as stated: in every state reached by add and remove, hasPrefix(p) is
\* true exactly when a stored word starts with p; read for the non-empty
\* prefixes p of the words the calls are made with.
C14_HasPrefixIffStored ==
    \A w \in DawgWords : \A p \in Prefixes(w) \ {<<>>} :
        hasPrefix(dawg, p) <=> (\E x \in dawg.isEnd : startsWith(x, p))

\* add(w, F2) right after add(w, F1), w not empty
ReAdd ==
    /\ lastOp.op = "dawg.add" /\ lastOp'.op = "dawg.add"
    /\ lastOp'.word = lastOp.word /\ lastOp.word # <<>>

\* C15 as stated: adding a stored word leaves size unchanged, and after
\* add(w, F1) then add(w, F2), getFlags(w) is F2, an absent or empty F2
\* included.
C15_LaterFlagsWin ==
    [][ReAdd => /\ dawg'.size = dawg.size
                /\ getFlags(dawg', lastOp'.word) = lastOp'.arg]_vars

\* C15 amended: adding a stored word leaves size unchanged; after add(w, F1)
\* then add(w, F2), getFlags(w) is F2 when F2 is not empty, and otherwise
\* what it was before the second call: F1 when F1 is not empty.
C15_LaterFlagsWinUnlessEmpty ==
    [][ReAdd =>
        LET w == lastOp'.word
            F1 == lastOp.arg
            F2 == lastOp'.arg
        IN  /\ dawg'.size = dawg.size
            /\ getFlags(dawg', w) = IF F2 # <<>> THEN F2 ELSE getFlags(dawg, w)
            /\ (F2 = <<>> /\ F1 # <<>>) => getFlags(dawg', w) = F1]_vars

\* C15 witness: "as" was added with F and K, then added again without flags;
\* it is counted once and carries F and K.
C15_Witness ==
    /\ lastOp = [op |-> "dawg.add", word |-> W_as, arg |-> <<>>]
    /\ getFlags(dawg, W_as) = <<"F", "K">>
    /\ dawg.size = 1 /\ dawg.isEnd = {W_as}

\* the strings the two graphs are compared on: the words of the calls, their
\* prefixes and their extensions by one letter
Probes == UNION {Prefixes(w) \cup {w \o <<"a">>, w \o <<"s">>} : w \in DawgWords}

\* C16: for every graph g reached by add and remove, the graph
\* deserialize(serialize(g)) answers has(w), getFlags(w) and hasPrefix(p) as
\* g does, for every string, and has the same size.
C16_RoundTrip ==
    LET g == deserialize(serialize(dawg))
    IN  /\ g.size = dawg.size
        /\ \A w \in Probes :
              /\ has(g, w) = has(dawg, w)
              /\ getFlags(g, w) = getFlags(dawg, w)
              /\ hasPrefix(g, w) = hasPrefix(dawg, w)

\* C16 witness: a graph rebuilt from its serialization that holds a flagged
\* word, a word without flags and the path of a removed word.
C16_Witness ==
    /\ lastOp.op = "dawg.roundtrip"
    /\ getFlags(dawg, W_as) = <<"F", "K">>
    /\ has(dawg, W_a) /\ getFlags(dawg, W_a) = <<>>
    /\ ~has(dawg, W_ass) /\ hasPrefix(dawg, W_ass)
    /\ dawg.size = 2

\* C17 as stated: a counted block whose count is missing, not a number,
\* larger or smaller than the number of its entry lines costs only that
\* block: the well-formed directive KEEPCASE K that follows it is parsed.
C17_LaterDirectivesParsed ==
    lastOp.op = "parseAffix" => affixData.flags.KEEPCASE = <<"K">>

\* the valid candidates the replacement table of aff yields for the token v
FromTable(aff, d, v) ==
    {c \in Range(replacementCandidates(aff, v)) : isValidCandidate(aff, d, c)}

\* C18 as stated: a valid candidate from the replacement table is ranked
\* before every valid candidate from another stage and is the first
\* suggestion.  The comparator of the sort reads the token and the two
\* words it compares, not the stage a word came from, so when the same
\* candidates are valid under each replacement table the same one is first
\* under all tables: the claim needs that one to come from every table.
C18_ReplacementRankedFirst ==
    (lastOp.op = "suggest" /\ suggested # <<>>) =>
        LET v == lastOp.word
            cands == Range(candidatesOf(affixData, dawg, v))
            samePool == \A aff \in RankAffs : Range(candidatesOf(aff, dawg, v)) = cands
        IN  samePool =>
                \E first \in cands :
                    \A aff \in RankAffs :
                        FromTable(aff, dawg, v) # {} => first \in FromTable(aff, dawg, v)

\* the empty string and strings of white space
Blanks == {<<>>, <<" ">>, <<" ", "\t">>, <<"\n">>, <<"\r", " ", " ">>}

FlagsOnTerminals(d) ==
    /\ DOMAIN d.flags \subseteq d.isEnd
    /\ \A x \in DOMAIN d.flags : d.flags[x] # <<>>

\* the flags of x differ after the step
FlagsChanged(x) == nodeFlags(dawg', x) # nodeFlags(dawg, x)

\* C20 as stated: a non-empty flag list is found only on a terminal node and
\* only on a word loaded as a root: a step changes the flags of a word only
\* when it loads that word as a root (dictionary line, add, personal line)
\* or removes it, so a derived form has no flags and its insertion leaves
\* the flags of the stored words as they are.
C20_FlagsOnlyOnRoots ==
    [][/\ FlagsOnTerminals(dawg')
       /\ \A x \in dawg'.nodes :
             FlagsChanged(x) =>
                 /\ x = lastOp'.word
                 /\ \/ lastOp'.op \in {"dictionary", "add", "personal"}
                    \/ lastOp'.op = "remove" /\ nodeFlags(dawg', x) = <<>>]_vars

\* C20 amended: as stated, with the words personal("*W") forbids next to the
\* words loaded as roots: the step "*W" adds the forbidden flag to W,
\* whether W was loaded as a root, stored as a derived form or not stored.
C20_FlagsOnlyOnNamedWords ==
    [][/\ FlagsOnTerminals(dawg')
       /\ \A x \in dawg'.nodes :
             FlagsChanged(x) =>
                 /\ x = lastOp'.word
                 /\ \/ lastOp'.op \in {"dictionary", "add", "personal"}
                    \/ lastOp'.op = "remove" /\ nodeFlags(dawg', x) = <<>>
                    \/ /\ lastOp'.op = "forbid"
                       /\ Range(nodeFlags(dawg', x)) \ Range(nodeFlags(dawg, x))
                             \subseteq {affixData.flags.FORBIDDENWORD, "__FORBIDDEN__"}]_vars

\* C20 witness: a/B was loaded, which derives as; as/K was loaded before and
\* keeps K through the insertion of the derived form as.
C20_Witness ==
    /\ lastOp = [op |-> "dictionary", word |-> W_a, arg |-> <<"B">>]
    /\ getFlags(dawg, W_a) = <<"B">>
    /\ getFlags(dawg, W_as) = <<"K">>
    /\ dawg.isEnd = {W_a, W_as}


\* the token as spell reads it, and the form found for it
Read(x) == normalize(trim(x), affixData.conversion.in)

FoundForm(x) == form(affixData, dawg, Read(x), TRUE)

\* C21: in every result of spell(x): forbidden implies not correct; when the
\* found form carries the WARN flag, warn is true and, with FORBIDWARN,
\* correct is false; when no form is found, forbidden and warn are false
\* and correct is true only if the token, as read, matches a compound
\* pattern.
C21_SpellResult ==
    lastOp.op = "spell" =>
        LET x == lastOp.word
            r == [correct |-> lastOp.arg[1], forbidden |-> lastOp.arg[2], warn |-> lastOp.arg[3]]
            found == FoundForm(x)
        IN  /\ r.forbidden => ~r.correct
            /\ (x # <<>> /\ Read(x) # <<>> /\ found # <<"null">>
                  /\ hasFlag(getFlags(dawg, found), affixData.flags.WARN))
                  => (r.warn /\ (affixData.flags.FORBIDWARN => ~r.correct))
            /\ (x = <<>> \/ Read(x) = <<>> \/ found = <<"null">>)
                  => /\ ~r.forbidden /\ ~r.warn
                     /\ r.correct => checkCompound(affixData, compiledCompoundRules, Read(x))

\* C21 witness: with FORBIDWARN, spell(AS) found the stored form As, which
\* carries WARN, and answered warn without correct or forbidden.
C21_Witness ==
    /\ lastOp.op = "spell" /\ lastOp.word = W_AS /\ lastOp.arg = <<FALSE, FALSE, TRUE>>
    /\ affixData.flags.FORBIDWARN
    /\ FoundForm(W_AS) = W_As /\ getFlags(dawg, W_As) = <<"W">>



SpellOf(x) == spell(affixData, compiledCompoundRules, dawg, x)

Compound(x) == checkCompound(affixData, compiledCompoundRules, x)

Cased(x) == toLowerCase(x) # x

AllUpper(x) == x = toUpperCase(x)

FlagsOf(v) == getFlags(dawg, v)

\* v is not stored, or is stored with KEEPCASE
KeptOut(v) == ~has(dawg, v) \/ hasFlag(FlagsOf(v), affixData.flags.KEEPCASE)

\* v is stored without KEEPCASE
StoredFree(v) == has(dawg, v) /\ ~hasFlag(FlagsOf(v), affixData.flags.KEEPCASE)

Forbidden(v) ==
    hasFlag(FlagsOf(v), affixData.flags.FORBIDDENWORD) \/ hasFlag(FlagsOf(v), "__FORBIDDEN__")

\* the cased inputs the lookup reads unchanged and does not find stored
CasedInputs == {x \in QueryTokens : Plain(x) /\ Cased(x) /\ ~has(dawg, x)}

\* C22 as stated: a cased input that is not stored and whose lower-case and
\* sentence-case forms are stored, if at all, with KEEPCASE is not accepted
\* by the case fallback of correct and spell; a cased input whose
\* lower-case or sentence-case form is stored without KEEPCASE is accepted
\* by both.
C22_KeepCaseOnlyExact ==
    \A x \in CasedInputs :
        /\ (KeptOut(toLowerCase(x)) /\ KeptOut(sentenceCase(x)))
              => (Correct(x) = Compound(x) /\ SpellOf(x).correct = Compound(x))
        /\ (StoredFree(toLowerCase(x)) \/ StoredFree(sentenceCase(x)))
              => (Correct(x) /\ SpellOf(x).correct)

\* C22 amended: a cased input that is not stored and whose lower-case and
\* sentence-case forms are stored, if at all, with KEEPCASE is accepted by
\* correct and spell exactly when it matches a compound pattern; correct
\* accepts a cased input when its lower-case form, or for an all-upper-case
\* input of two or more characters its sentence-case form, is stored
\* without KEEPCASE, a forbidden flag or ONLYINCOMPOUND; spell accepts it
\* when the first form stored without KEEPCASE among the sentence-case form
\* (for an all-upper-case input) and the lower-case form carries neither a
\* forbidden flag nor, under FORBIDWARN, WARN, and rejects it when that
\* form carries one.
C22_KeepCaseFallback ==
    \A x \in CasedInputs :
        LET lo == toLowerCase(x)
            se == sentenceCase(x)
            valid(v) == StoredFree(v) /\ isValidWord(affixData, FlagsOf(v))
            first == IF AllUpper(x) /\ StoredFree(se) THEN se
                     ELSE IF StoredFree(lo) THEN lo ELSE <<"null">>
        IN  /\ (KeptOut(lo) /\ KeptOut(se))
                  => (Correct(x) = Compound(x) /\ SpellOf(x).correct = Compound(x))
            /\ (valid(lo) \/ (AllUpper(x) /\ Len(x) > 1 /\ valid(se))) => Correct(x)
            /\ first # <<"null">>
                  => SpellOf(x).correct =
                        (/\ ~Forbidden(first)
                         /\ ~(hasFlag(FlagsOf(first), affixData.flags.WARN)
                                /\ affixData.flags.FORBIDWARN))

\* C22 witness: As is stored with KEEPCASE, neither AS nor as is stored, and
\* correct(AS) answered false.
C22_Witness ==
    /\ lastOp.op = "correct" /\ lastOp.word = W_AS /\ lastOp.arg = <<FALSE>>
    /\ affixData.flags.KEEPCASE = "K" /\ FlagsOf(W_As) = <<"K">>
    /\ ~has(dawg, W_AS) /\ ~has(dawg, W_as)



\* C28: for every token and every reachable dictionary state and affix
\* configuration, correct(x) returns the same boolean as spell(x).correct.
C28_CorrectIsSpellCorrect ==
    lastOp.op = "correct" => lastOp.arg[1] = SpellOf(lastOp.word).correct



\* a round of the edit-distance-2 loop is taken in this step
Ed2RoundTaken == run.phase = "ed2" /\ run'.previous > run.previous

ValidCount == Len(run.mem.validCandidates)

\* C23 as stated: the edit-distance-2 stage runs only when the earlier
\* strategies have produced no valid suggestion, and once started it stops
\* at the first batch that yields any valid suggestion.
C23_Ed2OnlyWhenNone ==
    [][Ed2RoundTaken =>
          /\ run.previous = 0 => ValidCount = 0
          /\ ValidCount' > ValidCount => (run'.phase # "ed2" \/ ~Ed2Continues')]_vars

\* C23 amended: the edit-distance-2 stage is entered exactly when the
\* earlier strategies have produced fewer than five valid suggestions, and
\* once started it stops at the first batch after which five or more valid
\* suggestions are held, or when the distance-1 list is used up.
C23_Ed2WhileFewerThanFive ==
    [][/\ (run.phase = "double" /\ run'.phase # "double")
            => (run'.phase = "ed2" <=> ValidCount' < MIN_GOOD_SUGGESTIONS)
       /\ Ed2RoundTaken
            => /\ ValidCount < MIN_GOOD_SUGGESTIONS
               /\ run'.phase = "ed2" <=> ValidCount' < MIN_GOOD_SUGGESTIONS
       /\ (run.phase = "ed2" /\ ~Ed2RoundTaken /\ run'.phase # "ed2")
            => run.previous >= run.maxIterations]_vars

\* C23 witness: the loop was entered with valid suggestions in hand, has
\* taken a round and goes on.
C23_Witness ==
    /\ run.phase = "ed2" /\ run.previous > 0 /\ Ed2Continues
    /\ ValidCount \in 1..(MIN_GOOD_SUGGESTIONS - 1)



\* the entry applies to value: its match, if present, matches, and value
\* ends (suffix) or starts (prefix) with its remove
Applies(value, rule, entry) ==
    /\ entry.match # NoMatch => matchTest(entry.match, value, rule.type = "SFX")
    /\ IF rule.type = "SFX" THEN endsWith(value, entry.remove)
                            ELSE startsWith(value, entry.remove)

\* the form of the entry: value without its trailing remove followed by add,
\* or add followed by value without its leading remove
FormOf(value, rule, entry) ==
    IF rule.type = "SFX"
    THEN SubSeq(value, 1, Len(value) - Len(entry.remove)) \o entry.add
    ELSE entry.add \o SubSeq(value, Len(entry.remove) + 1, Len(value))

\* the forms of value under rule: entry by entry, each form followed by the
\* forms it has under the continuation flags that name a rule
RECURSIVE ExpectedForms(_, _, _)
ExpectedForms(value, rule, rules) ==
    Flatten([i \in 1..Len(rule.entries) |->
        LET entry == rule.entries[i]
            next == FormOf(value, rule, entry)
        IN  IF Applies(value, rule, entry)
            THEN <<next>> \o Flatten([j \in 1..Len(entry.continuation) |->
                     IF entry.continuation[j] \in DOMAIN rules
                     THEN ExpectedForms(next, rules[entry.continuation[j]], rules)
                     ELSE <<>>])
            ELSE <<>>])

\* C24: for every value and rule, a call of apply that returns has emitted,
\* entry by entry in declaration order and for each entry that applies, the
\* form of the entry (suffix: value without its trailing remove, then add;
\* prefix: add, then value without its leading remove), each form followed
\* directly by the expansions of that form under every continuation flag
\* that names a rule; an entry whose remove value does not end or start
\* with emits nothing.
C24_ExpandForms ==
    (lastOp.op = "apply" /\ run.phase = "returned") =>
        LET rule == affixData.rules[lastOp.arg[1]]
            expected == ExpectedForms(lastOp.word, rule, affixData.rules)
        IN  /\ run.words = expected
            /\ apply(lastOp.word, rule, affixData.rules, <<>>) = expected

\* C24 witness: apply(a, T) has returned s, the form a that s has under U,
\* the form as that a has under V, nothing for the flag Z, which names no
\* rule, and then aa for the second entry.
C24_Witness ==
    /\ lastOp = [op |-> "apply", word |-> W_a, arg |-> <<"T">>]
    /\ run.phase = "returned"
    /\ run.words = << <<"s">>, W_a, W_as, <<"a", "a">> >>

\* C25: apply terminates on every rule table, cyclic continuations
\* included: no call ends in an overflow of the call stack.
C25_ExpandTerminates == run.phase # "thrown"



\* the keys of the calls that use their key, oldest first
UsedKeys(history, uses(_)) ==
    LET used == SelectSeq(history, uses) IN [i \in 1..Len(used) |-> used[i].key]

\* the n most recently used distinct keys of a list of uses
MostRecent(used, n) ==
    LET last(k) == CHOOSE i \in 1..Len(used) : used[i] = k /\ \A j \in (i + 1)..Len(used) : used[j] # k
    IN  {k \in Range(used) : Cardinality({o \in Range(used) : last(o) > last(k)}) < n}

\* a set, or a get that finds its key: it returns a value, not undefined
Uses(call) == call.op = "set" \/ call.value # Undefined

CacheKeySet(c) == Range(mapKeys(c.entries))

\* the least recently used key of the entries, by the uses of the history
LeastRecent(c, uses(_)) ==
    LET used == UsedKeys(c.history, uses)
    IN  CHOOSE k \in CacheKeySet(c) : MostRecent(used, Cardinality(CacheKeySet(c)) - 1) = CacheKeySet(c) \ {k}

RootText(line) ==
    LET slashIndex == findSlash(line, 0, Len(line), 0)
    IN  IF slashIndex = -1 THEN line ELSE slice(line, 0, slashIndex)

\* word with every \/ replaced by /
RECURSIVE Unescaped(_)
Unescaped(word) ==
    IF Len(word) < 2 THEN word
    ELSE IF word[1] = "\\" /\ word[2] = "/" THEN <<"/">> \o Unescaped(SubSeq(word, 3, Len(word)))
    ELSE <<word[1]>> \o Unescaped(Tail(word))

\* the line of the text that is its count: the first non-blank line, when
\* it is a number; 0 when the text has none
CountIndex(lines) ==
    LET nonBlank == {i \in 1..Len(lines) : lines[i] # <<>>}
    IN  IF nonBlank = {} THEN 0
        ELSE LET first == CHOOSE i \in nonBlank : \A j \in nonBlank : i <= j
             IN  IF isCount(lines[first]) THEN first ELSE 0

\* C26: after the loader has read a text, the root of every line whose word
\* contains an escaped slash is stored with a plain slash and without the
\* backslash, whether or not a flag string follows.
C26_EscapedSlashDecoded ==
    lastOp.op \in {"new", "dictionary"} =>
        LET lines == splitLines(lastOp.arg)
        IN  \A i \in 1..Len(lines) :
                (i # CountIndex(lines) /\ "\\" \in Range(RootText(lines[i])))
                    => /\ has(dawg, Unescaped(RootText(lines[i])))
                       /\ ~has(dawg, RootText(lines[i]))

\* the loader took the checker from before to after by reading text: the
\* count line is not stored by it, and every other line that is a word
\* alone is correct
CountIgnored(before, after, text) ==
    LET lines == splitLines(text)
        count == CountIndex(lines)
    IN  /\ (count # 0 /\ ~has(before, lines[count])
              /\ \A i \in 1..Len(lines) : i # count => RootText(lines[i]) # lines[count])
                => ~has(after, lines[count])
        /\ \A i \in 1..Len(lines) :
              (i # count /\ lines[i] # <<>> /\ RootText(lines[i]) = lines[i])
                => correct(affixData, compiledCompoundRules, after, lines[i])

\* C27: the loader, in the constructor and in dictionary(text), ignores the
\* first non-blank line when it is a number, also after a blank line, and
\* every word line that is not that count line is correct afterwards.
C27_CountLineIgnored ==
    /\ lastOp.op = "new" => CountIgnored(EmptyDawg, dawg, lastOp.arg)
    /\ [][lastOp'.op = "dictionary" => CountIgnored(dawg, dawg', lastOp'.arg)]_vars

\* C30: loadAsync resolves to a checker whose stored words and flags equal
\* those of new NSpell({aff, dic}), for every chunk size.
C30_AsyncEqualsSync ==
    (lastOp.op = "loadAsync" /\ run.phase = "resolved") =>
        LET sync == loadDictionary(affixData,
                        [dawg |-> EmptyDawg, crc |-> affixData.compoundRuleCodes], lastOp.arg)
        IN  /\ dawg.isEnd = sync.dawg.isEnd
            /\ \A w \in dawg.isEnd : getFlags(dawg, w) = getFlags(sync.dawg, w)


=============================================================================
